---------------------------- MODULE Spec2Model ----------------------------
(***************************************************************************)
(* A model of the self-organizing map engines of somber:                   *)
(*   src/som.py                      the batch Som (train, epoch_step,     *)
(*                                   BMU search, distance grid),           *)
(*   src/src/utils.py                the schedule functions,               *)
(*   src/somber/batch/sequential.py  Sequential._create_batches and the    *)
(*                                   save/load of Recursive and Merging.   *)
(*                                                                         *)
(* Numbers.  A real number v is the integer v * SCALE (binary fixed point, *)
(* SCALE = 2^10); products and quotients round towards minus infinity.     *)
(* Arrays are functions over 0-based index ranges, as in numpy; Python     *)
(* lists that are only appended to and measured are sequences.             *)
(***************************************************************************)
EXTENDS Integers, Sequences, FiniteSets, Bags, TLC

VARIABLES
    \* ---- the Som object (src/som.py, Som.__init__) ----
    width, height, data_dim, sigma, lam, learning_rates, lrfunc, nbfunc,
    weights, distance_grid, trained,
    \* ---- the call in progress ----
    pc,             \* position: "grid_loop", "constructed", "idle",
                    \*           "train_loop", "epoch_loop"
    gi,             \* loop index of _calculate_distance_grid
    train,          \* the locals of the running Som.train, or NoCall
    estep,          \* the locals of the running Som.epoch_step, or NoCall
    result,         \* what the last finished call returned or raised
    ncalls,         \* calls made so far on the model
    data,           \* the rows of the data set the caller holds
    \* ---- the sequential models (src/somber/batch/sequential.py) ----
    model,          \* the Recursive or Merging object at hand, or NoModel
    file,           \* what the path given to save and load holds
    base_order      \* names of the 4th..6th parameters of the base constructor

seqVars == << model, file, base_order >>

somFields == << width, height, data_dim, sigma, lam, learning_rates, lrfunc, nbfunc,
                weights, distance_grid, trained >>

vars == << width, height, data_dim, sigma, lam, learning_rates, lrfunc, nbfunc,
           weights, distance_grid, trained, pc, gi, train, estep, result, ncalls,
           data, model, file, base_order >>

-----------------------------------------------------------------------------
(* Bounds of the model *)

\* Largest map side explored by the distance-grid construction.
MaxSide == 4

\* Most rows of an input array.
MaxRows == 2

\* Most epochs asked of one train call.
MaxEpochs == 2

\* Most calls of train and epoch_step on one model.
MaxCalls == 2

\* The locals of a call that is not running.
NoCall == [active |-> FALSE]

\* No call has finished yet.
NoResult == [op |-> "none"]

\* No sequential model has been built.
NoModel == [cls |-> "none"]

\* Nothing has been written to the path yet.
NoFile == [state |-> "absent", by |-> "none", dict |-> << >>, saver |-> NoModel]

-----------------------------------------------------------------------------
(* Fixed-point arithmetic *)

SCALE == 2^10

Mul(a, b) == (a * b) \div SCALE

Div(a, b) == (a * SCALE) \div b

Max(a, b) == IF a >= b THEN a ELSE b

Abs(a) == IF a >= 0 THEN a ELSE -a

Range0(n) == 0 .. (n - 1)

RECURSIVE SumTo(_, _)
\* f[0] + ... + f[n-1]
SumTo(f, n) == IF n = 0 THEN 0 ELSE SumTo(f, n - 1) + f[n - 1]

\* exp(-x) for 0 <= x < 1, by the Taylor polynomial of degree 5 (Horner form).
ExpNegSmall(x) ==
    LET t5 == SCALE - x \div 5
        t4 == SCALE - Mul(x, t5) \div 4
        t3 == SCALE - Mul(x, t4) \div 3
        t2 == SCALE - Mul(x, t3) \div 2
    IN  SCALE - Mul(x, t2)

RECURSIVE ExpNeg(_)
\* exp(-x) for x >= 0: exp(-x) = exp(-1) * exp(-(x - 1)); underflows to 0.
ExpNeg(x) ==
    IF x >= 16 * SCALE THEN 0
    ELSE IF x >= SCALE THEN Mul((SCALE * 36788) \div 100000, ExpNeg(x - SCALE))
    ELSE ExpNegSmall(x)

\* np.exp(x) on a finite argument.
Exp(x) == IF x <= 0 THEN ExpNeg(-x) ELSE Div(SCALE, Max(ExpNeg(x), 1))

\* ln(x) for 1 <= x < 2: 2 * atanh((x - 1) / (x + 1)), series to z^7.
LnUnit(x) ==
    LET z  == Div(x - SCALE, x + SCALE)
        z2 == Mul(z, z)
        z3 == Mul(z2, z)
        z5 == Mul(z3, z2)
        z7 == Mul(z5, z2)
    IN  2 * (z + z3 \div 3 + z5 \div 5 + z7 \div 7)

RECURSIVE Ln(_)
\* np.log(x) for x > 0: ln(2x) = ln 2 + ln x.
Ln(x) ==
    IF x >= 2 * SCALE THEN (SCALE * 69315) \div 100000 + Ln(x \div 2)
    ELSE IF x < SCALE THEN Ln(2 * x) - (SCALE * 69315) \div 100000
    ELSE LnUnit(x)

\* The logarithm that train divides by is taken near 1, where a rounding of a
\* thousandth changes the quotient by a quarter: it is computed in units of
\* 1 / FINE, in two halves so that no product leaves 32 bits.
FINE == 2^28

HALF == 2^14

\* a * b for 0 <= a, b < 1 in units of 1 / FINE.
MulFine(a, b) ==
    LET a1 == a \div HALF
        a0 == a % HALF
        b1 == b \div HALF
        b0 == b % HALF
    IN  a1 * b1 + (a1 * b0 + a0 * b1) \div HALF

\* num / den in units of 1 / FINE, for integers 0 <= num < den < 2^16.
DivFine(num, den) ==
    LET q1 == (num * HALF) \div den
        r1 == (num * HALF) % den
    IN  q1 * HALF + (r1 * HALF) \div den

\* ln(c / d) for d <= c < 2 * d in units of 1 / FINE:
\* 2 * atanh((c - d) / (c + d)), series to z^15.
LnFineUnit(c, d) ==
    LET z   == DivFine(c - d, c + d)
        z2  == MulFine(z, z)
        z3  == MulFine(z, z2)
        z5  == MulFine(z3, z2)
        z7  == MulFine(z5, z2)
        z9  == MulFine(z7, z2)
        z11 == MulFine(z9, z2)
        z13 == MulFine(z11, z2)
        z15 == MulFine(z13, z2)
    IN  2 * (z + z3 \div 3 + z5 \div 5 + z7 \div 7 + z9 \div 9
               + z11 \div 11 + z13 \div 13 + z15 \div 15)

\* ln 2 in units of 1 / FINE.
LN2Fine == 186065279

RECURSIVE LnFine(_, _)
\* np.log(c / d) for integers c, d > 0, in units of 1 / FINE.
LnFine(c, d) ==
    IF c >= 2 * d THEN LN2Fine + LnFine(c, 2 * d)
    ELSE IF c < d THEN LnFine(2 * c, d) - LN2Fine
    ELSE LnFineUnit(c, d)

RECURSIVE QuotientBits(_, _, _, _)
\* Long division: q and r are the quotient and the remainder so far, and
\* `bits` more binary digits of the quotient are taken.
QuotientBits(q, r, den, bits) ==
    IF bits = 0 THEN q
    ELSE QuotientBits(2 * q + (2 * r) \div den, (2 * r) % den, den, bits - 1)

\* The hundredth that v, a value in units of 1 / SCALE, stands for.
Hundredths(v) == (v * 100 + SCALE \div 2) \div SCALE

RECURSIVE ISqrtBetween(_, _, _)
\* The integer r with lo <= r < hi and r * r <= v < (r + 1) * (r + 1), by bisection.
ISqrtBetween(v, lo, hi) ==
    IF hi - lo <= 1 THEN lo
    ELSE LET mid == (lo + hi) \div 2
         IN  IF mid * mid <= v THEN ISqrtBetween(v, mid, hi)
                               ELSE ISqrtBetween(v, lo, mid)

\* np.sqrt on a non-negative value: the integer part of the root.
ISqrt(v) == ISqrtBetween(v, 0, 2^15)

-----------------------------------------------------------------------------
(* Schedule functions: src/som.py expo, static; src/src/utils.py linear *)

\* expo(value, current_epoch, lam) = value * np.exp(-current_epoch / lam);
\* current_epoch is an integer count, lam a real.
Expo(value, current_epoch, l) ==
    Mul(value, Exp(-((current_epoch * SCALE * SCALE) \div l)))

\* static(value, current_epoch, total_epochs) = value
Static(value, current_epoch, total_epochs) == value

\* linear(value, current_epoch, total_epochs) =
\*     value * (total_epochs - current_epoch) / total_epochs + 0.5
Linear(value, current_epoch, total_epochs) ==
    (value * (total_epochs - current_epoch * SCALE)) \div total_epochs
        + SCALE \div 2

\* Calling the schedule a model holds (self.lrfunc / self.nbfunc).
Schedule(f, value, current_epoch, horizon) ==
    CASE f = "expo"   -> Expo(value, current_epoch, horizon)
      [] f = "static" -> Static(value, current_epoch, horizon)
      [] f = "linear" -> Linear(value, current_epoch, horizon)

-----------------------------------------------------------------------------
(* Grid topology: Som._grid_dist, Som._calculate_distance_grid, _index_dict *)

\* self.map_dim = width * height
MapDim(w, h) == w * h

\* The flat unit indices of the model: range(self.map_dim)
Units == Range0(MapDim(width, height))

\* Som.__init__: self._index_dict[idx] = (idx // self.height, idx % self.height)
IndexDict(idx, h) == << idx \div h, idx % h >>

\* A plausible slip in _grid_dist: the column offset is not squared.
GridDistUnsquared(index, w, h) ==
    LET rows == h
        cols == w
        node_col == index % cols
        node_row == index \div cols
    IN  [ j \in Range0(rows * cols) |->
            ((j \div cols) - node_row) * ((j \div cols) - node_row)
          + ((j % cols) - node_col) ]

\* Som._grid_dist(index): rows = height, cols = width; the node sits at
\* (index / cols, index % cols); dist2 over the rows x cols mesh, ravelled
\* row-major, so entry j is the mesh point (j // cols, j % cols).
GridDist(index, w, h) ==
    LET rows == h
        cols == w
        node_col == index % cols
        node_row == index \div cols
    IN  [ j \in Range0(rows * cols) |->
            ((j \div cols) - node_row) * ((j \div cols) - node_row)
          + ((j % cols) - node_col) * ((j % cols) - node_col) ]

\* Som.__init__ with sigma=None: (max(width, height) / 2.0) + 0.01
DefaultSigma(w, h) == (Max(w, h) * SCALE) \div 2 + SCALE \div 100

\* np.zeros((map_dim, map_dim))
ZeroMatrix(n, m) == [ i \in Range0(n) |-> [ j \in Range0(m) |-> 0 ] ]

\* Som._calculate_distance_grid, the whole loop at once.
CalculateDistanceGrid(w, h) ==
    [ i \in Range0(MapDim(w, h)) |-> GridDist(i, w, h) ]

-----------------------------------------------------------------------------
(* Arrays *)

\* len(a) of a 0-based array
ALen(a) == Cardinality(DOMAIN a)

\* The 0-based array of a tuple.
Arr(s) == [ i \in Range0(Len(s)) |-> s[i + 1] ]

\* a[lo:hi], Python slicing with both ends clipped to the array.
Slice(a, lo, hi) ==
    LET h == IF hi < ALen(a) THEN hi ELSE ALen(a)
        l == IF lo < h THEN lo ELSE h
    IN  [ i \in Range0(h - l) |-> a[l + i] ]

\* The rows of an array as a list, for list.extend(array).
RowList(a) == [ i \in 1 .. ALen(a) |-> a[i - 1] ]

\* m1 + m2 on matrices of one shape
MatAdd(m1, m2) == [ i \in DOMAIN m1 |-> [ j \in DOMAIN m1[i] |-> m1[i][j] + m2[i][j] ] ]

\* m / n, a matrix by a count
MatDivInt(m, n) == [ i \in DOMAIN m |-> [ j \in DOMAIN m[i] |-> m[i][j] \div n ] ]

\* np.ceil(a / b).astype(int) for counts a >= 0, b >= 1
CeilDiv(a, b) == (a + b - 1) \div b

-----------------------------------------------------------------------------
(* BMU search: Som._pseudo_distance, Som._get_bmus, Som.predict *)

\* An input X is [ndim |-> np.ndim(X), rows |-> X[0], X[1], ...]; each row holds
\* data_dim numbers.  ndim 2 is the shape (N, dim); ndim 4 the shape (N, dim, 1, 1).

\* Som._pseudo_distance(X, weights):
\*   p = np.tile(X, (1, map_dim)).reshape((X.shape[0], map_dim, X.shape[1]))
\*   return p - weights
\* For X of shape (N, dim) the tile repeats each row map_dim times, and entry
\* (m, d) of the reshaped row is X[b][d].  For X of shape (N, dim, 1, 1) the
\* repetition is promoted to the last axis, the tile has the shape
\* (N, dim, 1, map_dim), and entry (m, d) of the reshaped row is the element at
\* flat position m * dim + d of it, which is X[b][(m * dim + d) // map_dim].
PseudoDistance(X, W) ==
    LET map_dim == ALen(W)
        dim == ALen(X.rows[0])
    IN  [ b \in DOMAIN X.rows |->
            [ m \in Range0(map_dim) |->
                [ d \in Range0(dim) |->
                    (IF X.ndim = 2 THEN X.rows[b][d]
                     ELSE X.rows[b][(m * dim + d) \div map_dim])
                    - W[m][d] ] ] ]

\* np.sum(np.square(differences), axis=2)
SquaredDistances(differences) ==
    [ b \in DOMAIN differences |->
        [ m \in DOMAIN differences[b] |->
            SumTo([ d \in DOMAIN differences[b][m] |->
                      differences[b][m][d] * differences[b][m][d] ],
                  ALen(differences[b][m])) ] ]

\* np.sqrt(np.sum(np.square(differences), axis=2))
Distances(differences) ==
    LET sq == SquaredDistances(differences)
    IN  [ b \in DOMAIN sq |-> [ m \in DOMAIN sq[b] |-> ISqrt(sq[b][m]) ] ]

\* A plausible slip: the last of the minimal entries wins a tie.
ArgminLast(row) ==
    CHOOSE i \in DOMAIN row :
        /\ \A j \in DOMAIN row : row[i] <= row[j]
        /\ \A j \in DOMAIN row : j > i => row[j] # row[i]

\* np.argmin over one row: the first index that holds the minimum.
Argmin(row) ==
    CHOOSE i \in DOMAIN row :
        /\ \A j \in DOMAIN row : row[i] <= row[j]
        /\ \A j \in DOMAIN row : j < i => row[j] # row[i]

\* A plausible slip: np.argmin(distances, axis=0), one input index per unit.
GetBmusAxis0(X, W) ==
    LET sq == SquaredDistances(PseudoDistance(X, W))
    IN  [ m \in DOMAIN W |-> Argmin([ b \in DOMAIN sq |-> sq[b][m] ]) ]

\* Som._get_bmus(x)[0]: np.argmin(distances, axis=1).  The square root is
\* increasing, so the argmin of the roots is taken on the exact sums.
GetBmus(X, W) ==
    LET sq == SquaredDistances(PseudoDistance(X, W))
    IN  [ b \in DOMAIN sq |-> Argmin(sq[b]) ]

-----------------------------------------------------------------------------
(* Neighborhood kernel and the batch update: Som._distance_grid, Som._batch *)

\* Som._distance_grid(radius) = exp(-1.0 * distance_grid / (2.0 * radius ** 2))
DistanceGridKernel(grid, radius) ==
    [ i \in DOMAIN grid |->
        [ j \in DOMAIN grid[i] |->
            Exp(-((grid[i][j] * SCALE * SCALE) \div (2 * Mul(radius, radius)))) ] ]

\* epoch_step, "Calc once per epoch":
\*   influences = self._distance_grid(map_radius) * learning_rate[0]
\*   influences = np.asarray([influences] * data_dim).transpose((1, 2, 0))
Influences(grid, map_radius, learning_rate, dim) ==
    LET k == DistanceGridKernel(grid, map_radius)
    IN  [ i \in DOMAIN k |->
            [ j \in DOMAIN k[i] |->
                [ d \in Range0(dim) |-> Mul(k[i][j], learning_rate[1]) ] ] ]

\* Som._batch(batch, influences)[0]:
\*   bmus, differences = self._get_bmus(batch)
\*   update = self._calculate_update(differences, influences[bmus, :]).mean(axis=0)
BatchUpdate(batch, W, influences) ==
    LET bmus == GetBmus(batch, W)
        differences == PseudoDistance(batch, W)
        n == ALen(batch.rows)
    IN  [ m \in DOMAIN W |->
            [ d \in DOMAIN W[m] |->
                SumTo([ b \in Range0(n) |->
                          Mul(differences[b][m][d], influences[bmus[b]][m][d]) ], n)
                \div n ] ]

-----------------------------------------------------------------------------
(* Construction of the distance grid, row by row *)

InitGrid ==
    /\ width \in 1 .. MaxSide
    /\ height \in 1 .. MaxSide
    /\ data_dim = 1
    /\ sigma = DefaultSigma(width, height)
    /\ lam = 0
    /\ learning_rates = << SCALE >>
    /\ lrfunc = "expo"
    /\ nbfunc = "expo"
    /\ weights = ZeroMatrix(MapDim(width, height), 1)
    /\ distance_grid = ZeroMatrix(MapDim(width, height), MapDim(width, height))
    /\ trained = FALSE
    /\ pc = "grid_loop"
    /\ gi = 0
    /\ train = NoCall
    /\ estep = NoCall
    /\ result = NoResult
    /\ ncalls = 0
    /\ data = << >>
    /\ model = NoModel
    /\ file = NoFile
    /\ base_order = << >>

\* One iteration of `for i in range(self.map_dim)` in _calculate_distance_grid.
GridRow ==
    /\ pc = "grid_loop"
    /\ gi < MapDim(width, height)
    /\ distance_grid' = [distance_grid EXCEPT ![gi] = GridDist(gi, width, height)]
    /\ gi' = gi + 1
    /\ UNCHANGED << width, height, data_dim, sigma, lam, learning_rates, lrfunc,
                    nbfunc, weights, trained, pc, train, estep, result, ncalls, data, seqVars >>

\* The loop is over: the matrix is returned and stored as self.distance_grid.
GridReturn ==
    /\ pc = "grid_loop"
    /\ gi = MapDim(width, height)
    /\ pc' = "constructed"
    /\ UNCHANGED << width, height, data_dim, sigma, lam, learning_rates, lrfunc,
                    nbfunc, weights, distance_grid, trained, gi, train, estep,
                    result, ncalls, data, seqVars >>

NextGrid == GridRow \/ GridReturn

SpecGrid == InitGrid /\ [][NextGrid]_vars

-----------------------------------------------------------------------------
(* The batch Som: construction, train, epoch_step, predict *)

\* The constructor calls explored: Som(width, height, dim, [1.0], lrfunc) with
\* sigma and nbfunc left to their defaults, and `seed` naming the outcome of
\* np.random.uniform.
Configs ==
    { [width |-> 1, height |-> 2, dim |-> 1, lrfunc |-> "expo",   seed |-> 1],
      [width |-> 2, height |-> 2, dim |-> 2, lrfunc |-> "expo",   seed |-> 0],
      [width |-> 2, height |-> 1, dim |-> 1, lrfunc |-> "static", seed |-> 0] }

\* Outcomes of np.random.uniform(-0.1, 0.1, size=(map_dim, dim)): every entry
\* is one of -0.1, 0, 0.1 (to the grid of SCALE).
InitWeights(seed, n, dim) ==
    [ m \in Range0(n) |->
        [ d \in Range0(dim) |->
            IF seed = 0 THEN (((m + d) % 3) - 1) * (SCALE \div 10)
                        ELSE ((m % 2) * 2 - 1) * (SCALE \div 10) ] ]

\* The two rows of the data sets: (v, 1 - v, v, ...) for v = 0 and v = 1.
DataRow(v, dim) == [ d \in Range0(dim) |-> IF d % 2 = 0 THEN v * SCALE ELSE (1 - v) * SCALE ]

\* The data sets: 1..MaxRows rows that alternate between the two, from either.
DataSets(dim) ==
    { [ i \in Range0(n) |-> DataRow((first + i) % 2, dim) ] :
        n \in 1 .. MaxRows, first \in {0, 1} }

\* np.ndim of the array the rows are passed in: (N, dim) or (N, dim, 1, 1).
Ndims == { 2, 4 }

\* batch_size arguments
BatchSizes == { 1, 2 }

\* Som.__init__(width, height, dim, learning_rates, lrfunc, nbfunc, sigma)
Init ==
    /\ \E c \in Configs :
          /\ width = c.width
          /\ height = c.height
          /\ data_dim = c.dim
          /\ lrfunc = c.lrfunc
          /\ weights = InitWeights(c.seed, MapDim(c.width, c.height), c.dim)
    /\ sigma = DefaultSigma(width, height)
    /\ lam = 0
    /\ learning_rates = << SCALE >>
    /\ nbfunc = "expo"
    /\ distance_grid = CalculateDistanceGrid(width, height)
    /\ trained = FALSE
    /\ pc = "idle"
    /\ gi = MapDim(width, height)
    /\ train = NoCall
    /\ estep = NoCall
    /\ result = NoResult
    /\ ncalls = 0
    /\ data \in DataSets(data_dim)
    /\ model = NoModel
    /\ file = NoFile
    /\ base_order = << >>

\* train: self.lam = num_epochs / np.log(self.sigma).  The values of sigma are
\* hundredths (max(width, height) / 2 + 0.01); the logarithm is that of the
\* hundredth, and the quotient, in units of 1 / SCALE, is
\* num_epochs * SCALE * FINE / ln, rounded towards 0.
LamOf(num_epochs, sg) ==
    LET ln == LnFine(Hundredths(sg), 100)
        quotient == QuotientBits(num_epochs \div Abs(ln), num_epochs % Abs(ln),
                                 Abs(ln), 38)
    IN  IF ln < 0 THEN -quotient ELSE quotient

\* The locals of epoch_step on entry, up to `num_batches = ...`.  `updates`
\* lists what each call of _batch returned; the code does not keep it.
EpochStepEntry(X, map_radius, learning_rate, batch_size, caller) ==
    [ X |-> X, map_radius |-> map_radius, learning_rate |-> learning_rate,
      batch_size |-> batch_size, caller |-> caller,
      all_activations |-> << >>,
      accumulator |-> [ m \in DOMAIN weights |-> [ d \in DOMAIN weights[m] |-> 0 ] ],
      num_updates |-> 0,
      num_batches |-> CeilDiv(ALen(X.rows), batch_size),
      index |-> 0,
      updates |-> << >> ]

\* A plausible slip at the end of epoch_step: the accumulator is not averaged.
EpochEndWeightsNoAverage(W, accumulator, num_updates) ==
    MatAdd(W, accumulator)

\* epoch_step: self.weights += (accumulator / num_updates)
EpochEndWeights(W, accumulator, num_updates) ==
    MatAdd(W, MatDivInt(accumulator, num_updates))

\* train: the learning rate the loop holds once epoch `epoch` is over,
\*   learning_rate = self.lrfunc(self.learning_rates, epoch, num_epochs)
NextLearningRate(f, rates, epoch, num_epochs) ==
    [ i \in DOMAIN rates |-> Schedule(f, rates[i], epoch, num_epochs * SCALE) ]

\* train: map_radius = self.nbfunc(self.sigma, epoch, self.lam)
MapRadius(f, sg, epoch, l) == Schedule(f, sg, epoch, l)

\* Som.train(X, num_epochs, batch_size), up to the epoch loop.  The resize of
\* 2-D and 3-D data reads `num_batches`, a name train never binds: NameError.
TrainCall(X, num_epochs, batch_size) ==
    /\ pc = "idle"
    /\ ncalls < MaxCalls
    /\ lam' = LamOf(num_epochs, sigma)
    /\ ncalls' = ncalls + 1
    /\ IF X.ndim \in {2, 3}
       THEN /\ result' = [ op |-> "train", raised |-> "NameError", ndim |-> X.ndim,
                           num_epochs |-> num_epochs, batch_size |-> batch_size,
                           value |-> << >> ]
            /\ UNCHANGED << pc, train >>
       ELSE /\ train' = [ X |-> X, num_epochs |-> num_epochs,
                          batch_size |-> batch_size, epoch |-> 0,
                          learning_rate |-> learning_rates, bmus |-> << >> ]
            /\ pc' = "train_loop"
            /\ result' = NoResult
    /\ UNCHANGED << width, height, data_dim, sigma, learning_rates, lrfunc, nbfunc,
                    weights, distance_grid, trained, gi, estep, data, seqVars >>

\* train, one turn of `for epoch in range(num_epochs)` up to the entry of
\* epoch_step(X, map_radius, learning_rate, batch_size).
TrainEpoch ==
    /\ pc = "train_loop"
    /\ train.epoch < train.num_epochs
    /\ estep' = EpochStepEntry(train.X,
                               MapRadius(nbfunc, sigma, train.epoch, lam),
                               train.learning_rate, train.batch_size, "train")
    /\ pc' = "epoch_loop"
    /\ UNCHANGED << somFields, gi, train, result, ncalls, data, seqVars >>

\* Som.epoch_step(X, map_radius, learning_rate, batch_size) called on its own.
EpochStepCall(X, map_radius, learning_rate, batch_size) ==
    /\ pc = "idle"
    /\ ncalls < MaxCalls
    /\ ncalls' = ncalls + 1
    /\ estep' = EpochStepEntry(X, map_radius, learning_rate, batch_size, "direct")
    /\ pc' = "epoch_loop"
    /\ result' = NoResult
    /\ UNCHANGED << somFields, gi, train, data, seqVars >>

\* epoch_step, one turn of `for index in progressbar(range(num_batches), ...)`.
EpochBatch ==
    /\ pc = "epoch_loop"
    /\ estep.index < estep.num_batches
    /\ LET batch == [ ndim |-> estep.X.ndim,
                      rows |-> Slice(estep.X.rows,
                                     estep.index * estep.batch_size,
                                     (estep.index + 1) * estep.batch_size) ]
           influences == Influences(distance_grid, estep.map_radius,
                                    estep.learning_rate, data_dim)
           update == BatchUpdate(batch, weights, influences)
           differences == PseudoDistance(batch, weights)
       IN  estep' = [ estep EXCEPT
                        !.all_activations = @ \o RowList(Distances(differences)),
                        !.accumulator = MatAdd(@, update),
                        !.num_updates = @ + 1,
                        !.index = @ + 1,
                        !.updates = Append(@, update) ]
    /\ UNCHANGED << somFields, pc, gi, train, result, ncalls, data, seqVars >>

\* epoch_step after the last batch: the weights move, the activations are
\* returned; in train the epoch is appended to bmus and the learning rate of
\* the loop is recomputed.
EpochReturn ==
    /\ pc = "epoch_loop"
    /\ estep.index = estep.num_batches
    /\ weights' = EpochEndWeights(weights, estep.accumulator, estep.num_updates)
    /\ estep' = NoCall
    /\ IF estep.caller = "train"
       THEN /\ train' = [ train EXCEPT
                            !.bmus = Append(@, estep.all_activations),
                            !.learning_rate = NextLearningRate(lrfunc, learning_rates,
                                                               train.epoch,
                                                               train.num_epochs),
                            !.epoch = @ + 1 ]
            /\ pc' = "train_loop"
            /\ UNCHANGED result
       ELSE /\ result' = [ op |-> "epoch_step", raised |-> "none",
                           ndim |-> estep.X.ndim, num_epochs |-> 1,
                           batch_size |-> estep.batch_size,
                           value |-> estep.all_activations ]
            /\ pc' = "idle"
            /\ UNCHANGED train
    /\ UNCHANGED << width, height, data_dim, sigma, lam, learning_rates, lrfunc,
                    nbfunc, distance_grid, trained, gi, ncalls, data, seqVars >>

\* A plausible slip at the end of train: the decayed rate of the loop is
\* stored back into the model.
TrainReturnStoresRate ==
    /\ pc = "train_loop"
    /\ train.epoch = train.num_epochs
    /\ trained' = TRUE
    /\ learning_rates' = train.learning_rate
    /\ result' = [ op |-> "train", raised |-> "none", ndim |-> train.X.ndim,
                   num_epochs |-> train.num_epochs, batch_size |-> train.batch_size,
                   value |-> train.bmus ]
    /\ train' = NoCall
    /\ pc' = "idle"
    /\ UNCHANGED << width, height, data_dim, sigma, lam, lrfunc,
                    nbfunc, weights, distance_grid, gi, estep, ncalls, data, seqVars >>

\* train after the last epoch: self.trained = True; return bmus
TrainReturn ==
    /\ pc = "train_loop"
    /\ train.epoch = train.num_epochs
    /\ trained' = TRUE
    /\ result' = [ op |-> "train", raised |-> "none", ndim |-> train.X.ndim,
                   num_epochs |-> train.num_epochs, batch_size |-> train.batch_size,
                   value |-> train.bmus ]
    /\ train' = NoCall
    /\ pc' = "idle"
    /\ UNCHANGED << width, height, data_dim, sigma, lam, learning_rates, lrfunc,
                    nbfunc, weights, distance_grid, gi, estep, ncalls, data, seqVars >>

\* Som.predict(X): bmus, _ = self._get_bmus(X); return bmus
Predict(X) ==
    /\ pc = "idle"
    /\ result' = [ op |-> "predict", raised |-> "none", ndim |-> X.ndim,
                   num_epochs |-> 0, batch_size |-> 0, value |-> GetBmus(X, weights) ]
    /\ UNCHANGED << somFields, pc, gi, train, estep, ncalls, data, seqVars >>

\* The array of np.ndim k that holds the caller's rows.
Input(k) == [ ndim |-> k, rows |-> data ]

Next ==
    \/ \E k \in Ndims, n \in 0 .. MaxEpochs, b \in BatchSizes :
          TrainCall(Input(k), n, b)
    \/ TrainEpoch
    \/ \E b \in BatchSizes : EpochStepCall(Input(2), sigma, learning_rates, b)
    \/ EpochBatch
    \/ EpochReturn
    \/ TrainReturn
    \/ Predict(Input(2))

Spec == Init /\ [][Next]_vars

-----------------------------------------------------------------------------
(* Claims about the batch Som *)

\* C1 (as claimed): train on 2-D data of at least one row, with
\* num_epochs >= 1, batch_size >= 1 and sigma > 1, runs to completion: it does
\* not abort, it ends with trained = True and it returns one history entry per
\* epoch.
C1_TrainCompletes ==
    ( /\ result.op = "train"
      /\ result.ndim = 2
      /\ result.num_epochs >= 1
      /\ sigma > SCALE )
    => /\ result.raised = "none"
       /\ trained
       /\ Len(result.value) = result.num_epochs

\* Squared Euclidean distance between an input row and a weight vector.
SqEuclid(x, w) ==
    SumTo([ d \in DOMAIN x |-> (x[d] - w[d]) * (x[d] - w[d]) ], ALen(x))

\* The 2x2 map of the scenario: weights 0, 0.25, 0.75, 1 and the input 0.9.
ScenarioWeights ==
    Arr(<< Arr(<<0>>), Arr(<<SCALE \div 4>>), Arr(<<(3 * SCALE) \div 4>>), Arr(<<SCALE>>) >>)

ScenarioInput == [ ndim |-> 2, rows |-> Arr(<< Arr(<<(9 * SCALE) \div 10>>) >>) ]

\* C2: the index predict returns for an input row is a unit at minimal
\* Euclidean distance from the row, and the lowest such index when several
\* units tie; on the scenario map the input 0.9 gives unit 3.
C2_BmuIsFirstNearest ==
    /\ result.op = "predict" =>
         \A b \in DOMAIN data :
             LET i == result.value[b]
             IN  \A j \in Units :
                   /\ SqEuclid(data[b], weights[i]) <= SqEuclid(data[b], weights[j])
                   /\ j < i => SqEuclid(data[b], weights[j]) > SqEuclid(data[b], weights[i])
    /\ GetBmus(ScenarioInput, ScenarioWeights) = Arr(<< 3 >>)

\* C2 witness: predict has answered for a row that two units are equally near.
C2_Witness ==
    /\ result.op = "predict"
    /\ \E b \in DOMAIN data : \E j \in Units :
          /\ j > result.value[b]
          /\ SqEuclid(data[b], weights[j]) = SqEuclid(data[b], weights[result.value[b]])

\* C3: after any calls of train and epoch_step, predict on N rows returns
\* exactly N indices, one per row, each in 0 .. width * height - 1.
C3_PredictShape ==
    result.op = "predict" =>
        /\ DOMAIN result.value = DOMAIN data
        /\ \A b \in DOMAIN data : result.value[b] \in 0 .. (width * height - 1)

\* C3 witness: predict has answered for two rows on a model that two earlier
\* calls have trained.
C3_Witness ==
    /\ result.op = "predict"
    /\ ncalls >= 2
    /\ ALen(data) >= 2
    /\ ALen(data) # width * height

RECURSIVE MatSum(_)
\* The sum of a non-empty list of matrices.
MatSum(ms) == IF Len(ms) = 1 THEN ms[1] ELSE MatAdd(MatSum(SubSeq(ms, 1, Len(ms) - 1)), ms[Len(ms)])

\* C6: while the batches of an epoch are processed the weights stay as they
\* were; they change only in the step that ends epoch_step, once every batch
\* has been processed, by the sum of the per-batch deltas divided by the
\* number of batches.
C6_Step ==
    /\ (pc = "epoch_loop" /\ pc' = "epoch_loop") => weights' = weights
    /\ pc # "epoch_loop" => weights' = weights
    /\ (pc = "epoch_loop" /\ pc' # "epoch_loop") =>
          /\ Len(estep.updates) = CeilDiv(ALen(estep.X.rows), estep.batch_size)
          /\ weights' = MatAdd(weights, MatDivInt(MatSum(estep.updates), Len(estep.updates)))

C6_WeightsMoveOncePerEpoch == [][C6_Step]_vars

\* C6 witness: two batches have been processed, their deltas are accumulated
\* and the weights are about to move.
C6_Witness ==
    /\ pc = "epoch_loop"
    /\ estep.index = estep.num_batches
    /\ estep.num_batches >= 2
    /\ \E m \in Units : \E d \in Range0(data_dim) : estep.accumulator[m][d] > 1

\* C7 (as claimed): in every epoch of train, epoch_step is given the radius
\* and the learning rate of the schedules at that epoch's index.
C7_RatesFollowEpoch ==
    (pc = "epoch_loop" /\ estep.caller = "train") =>
        /\ estep.map_radius = Schedule(nbfunc, sigma, train.epoch, lam)
        /\ estep.learning_rate =
              [ i \in DOMAIN learning_rates |->
                  Schedule(lrfunc, learning_rates[i], train.epoch,
                           train.num_epochs * SCALE) ]

\* The rows of X repeated in order up to `total` rows.
Repeated(X, total) == [ p \in Range0(total) |-> X[p % ALen(X)] ]

\* C8 (as claimed), for Som.train: 2-D data whose row count is not a multiple
\* of batch_size is resized to a whole number of full batches by repeating
\* its rows in order, and the epochs run on the resized rows.
C8_TrainResizesByRepetition ==
    /\ ( /\ result.op = "train"
         /\ result.ndim = 2
         /\ ALen(data) % result.batch_size # 0 )
       => result.raised = "none"
    /\ (pc = "epoch_loop" /\ estep.caller = "train" /\ estep.X.ndim = 2)
       => estep.X.rows =
             Repeated(data, CeilDiv(ALen(data), estep.batch_size) * estep.batch_size)

\* What C11 says of one step: entering train leaves sigma, the initial
\* learning rates and the weights as they are and sets lam from the call's
\* num_epochs; no step changes sigma or the initial learning rates.
C11_Step ==
    /\ sigma' = sigma
    /\ learning_rates' = learning_rates
    /\ (pc = "idle" /\ pc' = "train_loop") =>
          /\ weights' = weights
          /\ lam' = LamOf(train'.num_epochs, sigma)
          /\ train'.epoch = 0
          /\ train'.learning_rate = learning_rates

\* What C11 says of a state: sigma and the initial learning rates are those of
\* construction, and epoch 0 of a train call is entered with the radius
\* nbfunc(sigma, 0, lam) and the initial learning rates.
C11_State ==
    /\ sigma = DefaultSigma(width, height)
    /\ learning_rates = << SCALE >>
    /\ (pc = "epoch_loop" /\ estep.caller = "train" /\ train.epoch = 0) =>
          /\ estep.map_radius = Schedule(nbfunc, sigma, 0, lam)
          /\ estep.learning_rate = << SCALE >>

\* C11: train never changes the configured sigma or the initial learning
\* rates; every train call starts epoch 0 with the radius nbfunc(sigma, 0, lam)
\* and the initial learning rate, with lam computed from that call's
\* num_epochs, on the weights the previous call left.
C11_TrainKeepsConfiguration == [] C11_State /\ [][C11_Step]_vars

\* C11 witness: a second call of train has entered epoch 0 on weights that an
\* earlier call has moved, after an earlier train call of two epochs.
C11_Witness ==
    /\ pc = "epoch_loop"
    /\ estep.caller = "train"
    /\ train.epoch = 0
    /\ ncalls = 2
    /\ trained
    /\ \E c \in Configs :
          /\ width = c.width /\ height = c.height /\ lrfunc = c.lrfunc
          /\ weights # InitWeights(c.seed, MapDim(c.width, c.height), c.dim)

\* C12 (as claimed): train called with num_epochs = 0 does not return
\* normally.
C12_ZeroEpochsRejected ==
    (result.op = "train" /\ result.num_epochs = 0) => result.raised # "none"

-----------------------------------------------------------------------------
(* Claims about the distance grid *)

\* C4: for every map size, the distance grid built at construction is
\* symmetric and has a zero diagonal.
C4_GridSymmetricZeroDiagonal ==
    pc = "constructed" =>
        \A i \in Units : \A j \in Units :
            /\ distance_grid[i][j] = distance_grid[j][i]
            /\ distance_grid[i][i] = 0

\* C4 witness: a finished grid of a non-square map with distinct units apart.
C4_Witness ==
    /\ pc = "constructed"
    /\ width = 2 /\ height = 3
    /\ distance_grid[0][5] = 5
    /\ distance_grid[5][0] = 5

\* Squared Euclidean distance between two (row, col) pairs.
CoordDist2(p, q) == (p[1] - q[1]) * (p[1] - q[1]) + (p[2] - q[2]) * (p[2] - q[2])

\* C5 (as claimed): every entry of the grid is the squared distance between
\* the coordinates that the index dictionary (row = i // height,
\* col = i % height) gives the two units, for every map size.
C5_GridFollowsIndexDict ==
    pc = "constructed" =>
        \A i \in Units : \A j \in Units :
            distance_grid[i][j] =
                CoordDist2(IndexDict(i, height), IndexDict(j, height))

-----------------------------------------------------------------------------
(* The sequential models: values, constructors *)

\* Most rows of the array given to _create_batches.
MaxSeqRows == 4

\* Largest batch_size given to _create_batches.
MaxBatch == 3

\* What an attribute holds that may be a number, a schedule function or None.
Num(n) == [t |-> "num", n |-> n, f |-> ""]

Fn(name) == [t |-> "fn", n |-> 0, f |-> name]

None == [t |-> "none", n |-> 0, f |-> ""]

\* The base class Som of somber/batch/som.py is not part of the sources.  Its
\* constructor takes (map_dim, data_dim, learning_rate, p4, p5, p6, ...); which
\* of sigma, lrfunc and nbfunc the positions 4 to 6 are is not laid down by
\* the sources at hand: either as Sequential.__init__ passes them on, or as
\* the Som of src/som.py declares them.
BaseOrders == { << "sigma", "lrfunc", "nbfunc" >>, << "lrfunc", "nbfunc", "sigma" >> }

\* The base constructor: it keeps each argument under the name of the
\* parameter it arrived in, gives sigma its default when it is None, draws
\* the weights (w0) and starts untrained.
BaseSomInit(order, map_dim, dim, learning_rate, p4, p5, p6, w0) ==
    LET arg(k) == IF order[1] = k THEN p4 ELSE IF order[2] = k THEN p5 ELSE p6
    IN  [ cls |-> "Som",
          map_dimensions |-> map_dim,
          data_dim |-> dim,
          weight_dim |-> map_dim[1] * map_dim[2],
          learning_rate |-> learning_rate,
          sigma |-> IF arg("sigma") = None
                    THEN Num(DefaultSigma(map_dim[1], map_dim[2]))
                    ELSE arg("sigma"),
          lrfunc |-> arg("lrfunc"),
          nbfunc |-> arg("nbfunc"),
          min_max |-> "np_min",
          weights |-> w0,
          context_weights |-> << >>,
          alpha |-> 0,
          beta |-> 0,
          entropy |-> None,
          trained |-> FALSE,
          progressbar_interval |-> None,
          progressbar_mult |-> None ]

\* Sequential.__init__(map_dim, data_dim, learning_rate, sigma, lrfunc, nbfunc,
\* min_max=np_min, ...): it passes sigma, lrfunc, nbfunc on by position, in
\* this order.  sequential_args is not an attribute of the model: it records
\* the values that the parameters sigma, lrfunc and nbfunc of this constructor
\* were bound to.
SequentialInit(order, map_dim, dim, learning_rate, sg, lrf, nbf, w0) ==
    BaseSomInit(order, map_dim, dim, learning_rate, sg, lrf, nbf, w0)
        @@ [ sequential_args |-> [ sigma |-> sg, lrfunc |-> lrf, nbfunc |-> nbf ] ]

\* Recursive.__init__(map_dim, data_dim, learning_rate, alpha, beta, sigma,
\* lrfunc, nbfunc): it calls Sequential.__init__ with (lrfunc, nbfunc, sigma)
\* by position and min_max=np_max by keyword.  init_args is not an attribute
\* of the model: it records the arguments sigma, lrfunc and nbfunc of the call.
RecursiveInit(order, map_dim, dim, learning_rate, al, be, sg, lrf, nbf, w0) ==
    LET b == SequentialInit(order, map_dim, dim, learning_rate, lrf, nbf, sg, w0)
    IN  [ b EXCEPT !.cls = "Recursive",
                   !.min_max = "np_max",
                   !.context_weights = ZeroMatrix(b.weight_dim, b.weight_dim),
                   !.alpha = al,
                   !.beta = be ]
        @@ [ init_args |-> [ sigma |-> sg, lrfunc |-> lrf, nbfunc |-> nbf ] ]

\* Merging.__init__(map_dim, data_dim, learning_rate, alpha, beta, sigma,
\* lrfunc, nbfunc, ...): the same positional call; the context weights are
\* np.ones_like(self.weights) and the entropy is 0.  min_max keeps its
\* default np_min, passed on as the seventh argument.
MergingInit(order, map_dim, dim, learning_rate, al, be, sg, lrf, nbf, w0) ==
    LET b == SequentialInit(order, map_dim, dim, learning_rate, lrf, nbf, sg, w0)
    IN  [ b EXCEPT !.cls = "Merging",
                   !.alpha = al,
                   !.beta = be,
                   !.context_weights =
                       [ m \in DOMAIN w0 |-> [ d \in DOMAIN w0[m] |-> SCALE ] ],
                   !.entropy = Num(0) ]
        @@ [ init_args |-> [ sigma |-> sg, lrfunc |-> lrf, nbfunc |-> nbf ] ]

\* cls(...) for the two classes
Construct(cls, order, map_dim, dim, learning_rate, al, be, sg, lrf, nbf, w0) ==
    IF cls = "Recursive"
    THEN RecursiveInit(order, map_dim, dim, learning_rate, al, be, sg, lrf, nbf, w0)
    ELSE MergingInit(order, map_dim, dim, learning_rate, al, be, sg, lrf, nbf, w0)

-----------------------------------------------------------------------------
(* Sequential._create_batches *)

\* X.flat of a 2-D array
Flat(X) ==
    LET dim == ALen(X[0])
    IN  [ q \in Range0(ALen(X) * dim) |-> X[q \div dim][q % dim] ]

\* np.resize(X, (s0, s1, s2)): the flattened array, repeated as often as
\* needed and cut to s0 * s1 * s2 entries, in row-major order.
NpResize(X, s0, s1, s2) ==
    LET flat == Flat(X)
        n == ALen(flat)
    IN  [ i \in Range0(s0) |->
            [ j \in Range0(s1) |->
                [ k \in Range0(s2) |-> flat[((i * s1 + j) * s2 + k) % n] ] ] ]

\* A.transpose((1, 0, 2))
Transpose102(A) ==
    [ j \in DOMAIN A[0] |-> [ i \in DOMAIN A |-> A[i][j] ] ]

\* _create_batches(X, batch_size): the value returned
CreateBatches(X, batch_size) ==
    LET max_x == CeilDiv(ALen(X), batch_size)
    IN  Transpose102(NpResize(X, batch_size, max_x, ALen(X[0])))

-----------------------------------------------------------------------------
(* save and load of Recursive and Merging *)

RECURSIVE Bits(_)
\* The number of binary digits of a natural number.
Bits(n) == IF n = 0 THEN 0 ELSE 1 + Bits(n \div 2)

\* The float32 nearest to a number (np.float32): the significand is rounded
\* to 24 binary digits, a tie going to the even neighbour.  SCALE is a power of
\* two, so the rounding acts on the integer that stands for the number.
Round32(v) ==
    LET a == Abs(v)
        e == Bits(a) - 24
    IN  IF e <= 0
        THEN v
        ELSE LET q == 2^e
                 lo == (a \div q) * q
                 r == a - lo
                 up == IF 2 * r > q \/ (2 * r = q /\ (a \div q) % 2 = 1)
                       THEN lo + q ELSE lo
             IN  IF v >= 0 THEN up ELSE -up

\* np.asarray(m, dtype=np.float32) of a list of lists
AsFloat32(m) == [ i \in DOMAIN m |-> [ j \in DOMAIN m[i] |-> Round32(m[i][j]) ] ]

\* [[float(w) for w in x] for x in m]: a Python float holds every float32 and
\* float64 exactly, and json writes a float with digits that read back as the
\* same float.
Floats(m) == [ i \in DOMAIN m |-> [ j \in DOMAIN m[i] |-> m[i][j] ] ]

\* The keys load reads without a fallback, and those it reads inside a try.
RequiredKeys == { "weights", "dimensions", "lrfunc", "nbfunc", "lr", "sigma" }

OptionalKeys == { "context_weights", "alpha", "beta", "entropy" }

\* save: the keys of the dictionary that is written
SavedKeys(cls) ==
    RequiredKeys \cup { "context_weights", "alpha", "beta" }
                 \cup (IF cls = "Merging" THEN { "entropy" } ELSE { })

\* save: the dictionary built from the model
SaveDict(m) ==
    [ k \in SavedKeys(m.cls) |->
        CASE k = "weights" -> Floats(m.weights)
          [] k = "context_weights" -> Floats(m.context_weights)
          [] k = "dimensions" -> m.map_dimensions
          [] k = "lrfunc" -> IF m.lrfunc = Fn("expo") THEN "expo" ELSE "linear"
          [] k = "nbfunc" -> IF m.nbfunc = Fn("expo") THEN "expo" ELSE "linear"
          [] k = "lr" -> m.learning_rate
          [] k = "sigma" -> m.sigma
          [] k = "alpha" -> m.alpha
          [] k = "beta" -> m.beta
          [] k = "entropy" -> m.entropy ]

\* json.dump raises TypeError on a value that is a function; of the values of
\* the dictionary only self.sigma can be one.
DumpRaises(dicto) == dicto["sigma"].t = "fn"

\* Recursive.load, except KeyError: np.zeros((len(weights), len(weights)))
RecursiveContextDefault(wts) == ZeroMatrix(ALen(wts), ALen(wts))

\* Recursive.load, except KeyError: alpha = 3.0; beta = 1.0
RecursiveAlphaBetaDefault == [ alpha |-> 3 * SCALE, beta |-> SCALE ]

\* A plausible slip: the fallback of Recursive copied into Merging.load.
MergingContextZeros(wts) ==
    [ m \in DOMAIN wts |-> [ d \in DOMAIN wts[m] |-> 0 ] ]

\* Merging.load, except KeyError: np.ones(weights.shape)
MergingContextDefault(wts) ==
    [ m \in DOMAIN wts |-> [ d \in DOMAIN wts[m] |-> SCALE ] ]

\* Merging.load, except KeyError: alpha = 0.0; beta = 0.5; entropy = 0.0
MergingDefault == [ alpha |-> 0, beta |-> SCALE \div 2, entropy |-> Num(0) ]

\* Recursive.load once json.load has returned the dictionary `d`.  The two
\* assignments of the second try share one except clause.
RecursiveLoad(order, d) ==
    LET wts == AsFloat32(d["weights"])
        datadim == ALen(wts[0])
        lrf == IF d["lrfunc"] = "expo" THEN Fn("expo") ELSE Fn("linear")
        nbf == IF d["nbfunc"] = "expo" THEN Fn("expo") ELSE Fn("linear")
        context_weights == IF "context_weights" \in DOMAIN d
                           THEN AsFloat32(d["context_weights"])
                           ELSE RecursiveContextDefault(wts)
        ab == IF "alpha" \in DOMAIN d /\ "beta" \in DOMAIN d
              THEN [ alpha |-> d["alpha"], beta |-> d["beta"] ]
              ELSE RecursiveAlphaBetaDefault
        s == Construct("Recursive", order, d["dimensions"], datadim, d["lr"],
                       ab.alpha, ab.beta, d["sigma"], lrf, nbf,
                       ZeroMatrix(ALen(wts), datadim))
    IN  [ s EXCEPT !.weights = wts,
                   !.context_weights = context_weights,
                   !.trained = TRUE ]

\* Merging.load once json.load has returned the dictionary `d`.  The three
\* assignments of the second try share one except clause.
MergingLoad(order, d) ==
    LET wts == AsFloat32(d["weights"])
        datadim == ALen(wts[0])
        lrf == IF d["lrfunc"] = "expo" THEN Fn("expo") ELSE Fn("linear")
        nbf == IF d["nbfunc"] = "expo" THEN Fn("expo") ELSE Fn("linear")
        context_weights == IF "context_weights" \in DOMAIN d
                           THEN AsFloat32(d["context_weights"])
                           ELSE MergingContextDefault(wts)
        abe == IF "alpha" \in DOMAIN d /\ "beta" \in DOMAIN d /\ "entropy" \in DOMAIN d
               THEN [ alpha |-> d["alpha"], beta |-> d["beta"], entropy |-> d["entropy"] ]
               ELSE MergingDefault
        s == Construct("Merging", order, d["dimensions"], datadim, d["lr"],
                       abe.alpha, abe.beta, d["sigma"], lrf, nbf,
                       ZeroMatrix(ALen(wts), datadim))
    IN  [ s EXCEPT !.entropy = abe.entropy,
                   !.weights = wts,
                   !.context_weights = context_weights,
                   !.trained = TRUE ]

-----------------------------------------------------------------------------
(* The sequential models as a state machine: _create_batches, save, load *)

\* The arrays given to _create_batches: 1..MaxSeqRows rows of two entries,
\* no two entries alike.
SeqData ==
    { [ i \in Range0(n) |-> [ d \in Range0(2) |-> (2 * i + d) * SCALE ] ] :
        n \in 1 .. MaxSeqRows }

\* The weights a model holds when it is saved: doubles that are float32
\* numbers as well, or doubles with a 25-digit significand among them.
SeqWeights ==
    { [ m \in Range0(2) |-> [ d \in Range0(2) |-> (2 * m + d - 1) * (SCALE \div 16) ] ],
      [ m \in Range0(2) |-> [ d \in Range0(2) |-> (2 * m + d) * SCALE + 2^24 + 1 ] ] }

\* The sigma and lrfunc arguments of the constructor calls explored.
SeqArgs ==
    { [ sigma |-> None, lrfunc |-> Fn("expo") ],
      [ sigma |-> Num(2 * SCALE), lrfunc |-> Fn("linear") ] }

\* cls((1, 2), 2, 0.3, alpha=0.25, beta=0.75, sigma, lrfunc) for both classes.
InitSeq ==
    /\ width = 1
    /\ height = 2
    /\ data_dim = 2
    /\ sigma = DefaultSigma(1, 2)
    /\ lam = 0
    /\ learning_rates = << SCALE >>
    /\ lrfunc = "expo"
    /\ nbfunc = "expo"
    /\ weights = ZeroMatrix(2, 2)
    /\ distance_grid = ZeroMatrix(2, 2)
    /\ trained = FALSE
    /\ pc = "seq"
    /\ gi = 0
    /\ train = NoCall
    /\ estep = NoCall
    /\ result = NoResult
    /\ ncalls = 0
    /\ data \in SeqData
    /\ base_order \in BaseOrders
    /\ \E cls \in { "Recursive", "Merging" }, a \in SeqArgs, w0 \in SeqWeights :
          model = Construct(cls, base_order, << 1, 2 >>, 2, (3 * SCALE) \div 10,
                            SCALE \div 4, (3 * SCALE) \div 4,
                            a.sigma, a.lrfunc, Fn("expo"), w0)
    /\ file = NoFile

\* What a call on a sequential model returned or raised.
SeqResult(op, raised, batch_size, value) ==
    [ op |-> op, raised |-> raised, ndim |-> 2, num_epochs |-> 0,
      batch_size |-> batch_size, value |-> value ]

\* model._create_batches(X, batch_size)
CreateBatchesCall(batch_size) ==
    /\ pc = "seq"
    /\ ncalls < MaxCalls
    /\ ncalls' = ncalls + 1
    /\ model' = [ model EXCEPT !.progressbar_interval = Num(1),
                               !.progressbar_mult = Num(batch_size) ]
    /\ result' = SeqResult("_create_batches", "none", batch_size,
                           CreateBatches(data, batch_size))
    /\ UNCHANGED << somFields, pc, gi, train, estep, data, file, base_order >>

\* model.save(path).  open(path, 'w') empties the file; when json.dump raises,
\* what has been written is not a complete JSON text.
Save ==
    /\ pc = "seq"
    /\ ncalls < MaxCalls
    /\ ncalls' = ncalls + 1
    /\ LET dicto == SaveDict(model)
       IN  IF DumpRaises(dicto)
           THEN /\ file' = [ state |-> "truncated", by |-> "save", dict |-> << >>,
                             saver |-> model ]
                /\ result' = SeqResult("save", "TypeError", 0, model.cls)
           ELSE /\ file' = [ state |-> "json", by |-> "save", dict |-> dicto,
                             saver |-> model ]
                /\ result' = SeqResult("save", "none", 0, model.cls)
    /\ UNCHANGED << somFields, pc, gi, train, estep, data, model, base_order >>

\* cls.load(path) for a path that exists: json.load raises on a text that is
\* not JSON; otherwise the model returned takes the place of the one at hand.
Load(cls) ==
    /\ pc = "seq"
    /\ ncalls < MaxCalls
    /\ file.state # "absent"
    /\ ncalls' = ncalls + 1
    /\ IF file.state = "truncated"
       THEN /\ result' = SeqResult("load", "JSONDecodeError", 0, cls)
            /\ UNCHANGED model
       ELSE /\ model' = IF cls = "Recursive"
                        THEN RecursiveLoad(base_order, file.dict)
                        ELSE MergingLoad(base_order, file.dict)
            /\ result' = SeqResult("load", "none", 0, cls)
    /\ UNCHANGED << somFields, pc, gi, train, estep, data, file, base_order >>

\* The values of a JSON file that another SOM wrote.
OtherDict(keys) ==
    [ k \in keys |->
        CASE k = "weights" ->
               [ m \in Range0(2) |-> [ d \in Range0(2) |-> (m + d) * SCALE + 2^24 + 1 ] ]
          [] k = "context_weights" ->
               [ m \in Range0(2) |-> [ d \in Range0(2) |-> SCALE \div 8 ] ]
          [] k = "dimensions" -> << 1, 2 >>
          [] k = "lrfunc" -> "linear"
          [] k = "nbfunc" -> "expo"
          [] k = "lr" -> SCALE \div 2
          [] k = "sigma" -> Num(SCALE + SCALE \div 2)
          [] k = "alpha" -> 2 * SCALE
          [] k = "beta" -> SCALE \div 4
          [] k = "entropy" -> Num(SCALE \div 8) ]

\* The path holds a file that was not written by this model's save: it has
\* the required keys and the optional keys `optional`.
OtherFile(optional) ==
    /\ pc = "seq"
    /\ file = NoFile
    /\ file' = [ state |-> "json", by |-> "other",
                 dict |-> OtherDict(RequiredKeys \cup optional), saver |-> NoModel ]
    /\ UNCHANGED << somFields, pc, gi, train, estep, result, ncalls, data, model,
                    base_order >>

NextSeq ==
    \/ \E b \in 1 .. MaxBatch : CreateBatchesCall(b)
    \/ Save
    \/ \E cls \in { "Recursive", "Merging" } : Load(cls)
    \/ \E optional \in SUBSET OptionalKeys : OtherFile(optional)

SpecSeq == InitSeq /\ [][NextSeq]_vars

-----------------------------------------------------------------------------
(* Claims about the sequential models *)

\* The part of C8 that is about Sequential._create_batches: the array returned
\* has the shape (ceil(N / batch_size), batch_size, dim) and its entry [t][b]
\* is the row (b * ceil(N / batch_size) + t) mod N of X.
CreateBatchesRepeatsRows ==
    result.op = "_create_batches" =>
        LET N == ALen(data)
            max_x == CeilDiv(N, result.batch_size)
        IN  /\ DOMAIN result.value = Range0(max_x)
            /\ \A t \in Range0(max_x) :
                  /\ DOMAIN result.value[t] = Range0(result.batch_size)
                  /\ \A b \in Range0(result.batch_size) :
                        result.value[t][b] = data[(b * max_x + t) % N]

\* C9 (as claimed): a Recursive or Merging model that is saved and then loaded
\* by its own class comes back with the same weights and context weights,
\* element for element, and trained = True.
C9_SaveLoadRoundTrip ==
    ( /\ result.op = "load"
      /\ file.by = "save"
      /\ result.value = file.saver.cls )
    => /\ result.raised = "none"
       /\ model.weights = file.saver.weights
       /\ model.context_weights = file.saver.context_weights
       /\ model.trained

\* C10: load of a file that has the required keys does not fail, whichever
\* optional keys are missing, and every missing optional key takes its
\* fallback: for Recursive context_weights = zeros (units x units),
\* alpha = 3.0, beta = 1.0; for Merging context_weights = ones in the shape of
\* the weights, alpha = 0.0, beta = 0.5, entropy = 0.0.
C10_LoadFallbacks ==
    ( /\ result.op = "load"
      /\ file.state = "json"
      /\ RequiredKeys \subseteq DOMAIN file.dict )
    => LET keys == DOMAIN file.dict
           units == ALen(model.weights)
       IN  /\ result.raised = "none"
           /\ model.cls = result.value
           /\ model.weights = AsFloat32(file.dict["weights"])
           /\ model.cls = "Recursive" =>
                /\ "context_weights" \notin keys =>
                      model.context_weights =
                          [ i \in Range0(units) |-> [ j \in Range0(units) |-> 0 ] ]
                /\ "alpha" \notin keys => model.alpha = 3 * SCALE
                /\ "beta" \notin keys => model.beta = SCALE
           /\ model.cls = "Merging" =>
                /\ "context_weights" \notin keys =>
                      /\ DOMAIN model.context_weights = DOMAIN model.weights
                      /\ \A m \in DOMAIN model.weights :
                            /\ DOMAIN model.context_weights[m] = DOMAIN model.weights[m]
                            /\ \A d \in DOMAIN model.weights[m] :
                                  model.context_weights[m][d] = SCALE
                /\ "alpha" \notin keys => model.alpha = 0
                /\ "beta" \notin keys => model.beta = SCALE \div 2
                /\ "entropy" \notin keys => model.entropy = Num(0)

\* C10 witness: Merging.load has returned a model from a file of another SOM
\* that has none of the optional keys.
C10_Witness ==
    /\ result.op = "load"
    /\ result.raised = "none"
    /\ file.by = "other"
    /\ DOMAIN file.dict = RequiredKeys
    /\ model.cls = "Merging"
    /\ model.trained
    /\ model.context_weights[1][1] = SCALE

\* C21: load keeps every optional value that the file has and applies the
\* fallback only to the keys that are absent: alpha and beta of a file are the
\* alpha and beta of the model returned, whichever other optional keys the file
\* lacks (for Merging the entropy as well, for both classes the context
\* weights).
C21_LoadKeepsPresentValues ==
    ( /\ result.op = "load"
      /\ result.raised = "none"
      /\ file.state = "json" )
    => LET d == file.dict
           keys == DOMAIN d
       IN  /\ "alpha" \in keys => model.alpha = d["alpha"]
           /\ "beta" \in keys => model.beta = d["beta"]
           /\ "context_weights" \in keys =>
                 model.context_weights = AsFloat32(d["context_weights"])
           /\ ("entropy" \in keys /\ model.cls = "Merging") =>
                 model.entropy = d["entropy"]
           /\ ("alpha" \notin keys /\ model.cls = "Recursive") =>
                 model.alpha = 3 * SCALE
           /\ ("beta" \notin keys /\ model.cls = "Recursive") =>
                 model.beta = SCALE
           /\ ("alpha" \notin keys /\ model.cls = "Merging") => model.alpha = 0
           /\ ("beta" \notin keys /\ model.cls = "Merging") =>
                 model.beta = SCALE \div 2
           /\ ("entropy" \notin keys /\ model.cls = "Merging") =>
                 model.entropy = Num(0)

\* C16: a Recursive or Merging model constructed with an explicit sigma, lrfunc
\* and nbfunc holds the given radius as sigma, the given learning-rate
\* schedule as lrfunc and the given neighbourhood schedule as nbfunc, and each
\* of the three arguments is bound to the parameter of the same name of the
\* constructor of the base class Sequential: none is swapped with another.
C16_ArgumentsKeepTheirNames ==
    ( /\ model.cls \in { "Recursive", "Merging" }
      /\ model.init_args.sigma # None )
    => /\ model.sequential_args = model.init_args
       /\ model.sigma = model.init_args.sigma
       /\ model.lrfunc = model.init_args.lrfunc
       /\ model.nbfunc = model.init_args.nbfunc

-----------------------------------------------------------------------------
(* THSom (src/thsom.py): epoch_step, _get_bmus, _temporal_update, predict *)

\* Most time steps of a sequence given to THSom.
MaxSteps == 2

\* np.argmax over one row: the first index that holds the maximum.
Argmax(row) ==
    CHOOSE i \in DOMAIN row :
        /\ \A j \in DOMAIN row : row[i] >= row[j]
        /\ \A j \in DOMAIN row : j < i => row[j] # row[i]

\* row.max()
RowMax(row) == row[Argmax(row)]

\* m.clip(0.0, 1.0)
Clip01(m) ==
    [ i \in DOMAIN m |->
        [ j \in DOMAIN m[i] |->
            IF m[i][j] < 0 THEN 0 ELSE IF m[i][j] > SCALE THEN SCALE ELSE m[i][j] ] ]

\* Marks an entry that is nan or infinite, below every number of the model.
NaN == -(2^30)

\* A row of activations that holds a nan.
Poisoned(row) == \E i \in DOMAIN row : row[i] = NaN

\* THSom._get_bmus(x, y=y): the winners, the normalised activations and the
\* spatial differences.  `x` holds one column of a batch, `y` the previous
\* activations, `tw` the temporal weights.  A row whose maximum is 0 is
\* divided by 0: its zeros become nan, its negative entries -inf, and argmax
\* returns the first nan, the first index of the maximum.  A previous row
\* that holds a nan makes every sum of products, hence the whole new row, nan,
\* and argmax returns 0; an infinite entry next to a nan changes none of this,
\* so it is marked like the nan.
THGetBmus(x, y, W, tw, const_dim) ==
    LET spatial_differences == PseudoDistance([ ndim |-> 2, rows |-> x ], W)
        dist == Distances(spatial_differences)
        temporal_differences ==
            [ z \in DOMAIN x |->
                [ i \in DOMAIN W |->
                    SumTo([ h \in DOMAIN W |-> Mul(y[z][h], tw[i][h]) ], ALen(W)) ] ]
        raw == [ z \in DOMAIN x |->
                   [ i \in DOMAIN W |->
                       (const_dim - dist[z][i]) + temporal_differences[z][i] ] ]
        differences ==
            [ z \in DOMAIN x |->
                [ i \in DOMAIN W |->
                    IF Poisoned(y[z]) \/ RowMax(raw[z]) = 0
                    THEN NaN
                    ELSE Div(raw[z][i], RowMax(raw[z])) ] ]
    IN  [ bmu |-> [ z \in DOMAIN x |->
                      IF Poisoned(y[z]) THEN 0
                      ELSE IF RowMax(raw[z]) = 0 THEN Argmax(raw[z])
                      ELSE Argmax(differences[z]) ],
          differences |-> differences,
          spatial |-> spatial_differences ]

\* THSom._temporal_update(batch_size, beta, prev_bmu, bmu, zeta): one matrix
\* per sequence of the batch.
TemporalUpdate(batch_size, beta, prev_bmu, bmu, zeta, tw) ==
    [ z \in Range0(batch_size) |->
        [ i \in DOMAIN tw |->
            [ h \in DOMAIN tw[i] |->
                IF i = bmu[z] /\ h = prev_bmu[z]
                THEN Mul(zeta, SCALE - (tw[i][h] + beta))
                ELSE -Mul(zeta, tw[i][h] + beta) ] ] ]

\* spatial_update.mean(axis=0) for
\*   spatial_update = self._calculate_update(spatial, influences[bmu_theta, :])
SpatialUpdateMean(spatial, influences, bmu) ==
    LET n == ALen(spatial)
    IN  [ m \in DOMAIN spatial[0] |->
            [ d \in DOMAIN spatial[0][m] |->
                SumTo([ z \in Range0(n) |->
                          Mul(spatial[z][m][d], influences[bmu[z]][m][d]) ], n)
                \div n ] ]

\* temporal_update.sum(axis=0)
TemporalUpdateSum(update) ==
    LET n == ALen(update)
    IN  [ i \in DOMAIN update[0] |->
            [ h \in DOMAIN update[0][i] |->
                SumTo([ z \in Range0(n) |-> update[z][i][h] ], n) ] ]

\* The batches of sequences given to THSom: N sequences of T steps, every
\* step one number, 0 or 1.
THData ==
    UNION { [ Range0(n) -> [ Range0(t) -> { [ d \in Range0(1) |-> 0 ],
                                            [ d \in Range0(1) |-> SCALE ] } ] ] :
              n \in 1 .. MaxRows, t \in 1 .. MaxSteps }

\* Outcomes of np.random.uniform(-0.1, 0.1) for the two units of the map.
THWeights ==
    { Arr(<< Arr(<< -(SCALE \div 10) >>), Arr(<< SCALE \div 10 >>) >>),
      Arr(<< Arr(<< SCALE \div 10 >>), Arr(<< SCALE \div 16 >>) >>) }

\* THSom(1, 2, 1, [1.0, 0.03], 0.01), as in __main__ but for the map size.
InitTH ==
    /\ width = 1
    /\ height = 2
    /\ data_dim = 1
    /\ sigma = DefaultSigma(1, 2)
    /\ lam = 0
    /\ learning_rates = << SCALE, (3 * SCALE) \div 100 >>
    /\ lrfunc = "expo"
    /\ nbfunc = "expo"
    /\ weights \in THWeights
    /\ distance_grid = CalculateDistanceGrid(1, 2)
    /\ trained = FALSE
    /\ pc = "th_idle"
    /\ gi = 2
    /\ train = NoCall
    /\ estep = NoCall
    /\ result = NoResult
    /\ ncalls = 0
    /\ data \in THData
    /\ model = [ cls |-> "THSom",
                 temporal_weights |-> ZeroMatrix(2, 2),
                 const_dim |-> ISqrt(1 * SCALE * SCALE),
                 beta |-> SCALE \div 100 ]
    /\ file = NoFile
    /\ base_order = << >>

\* THSom.epoch_step(X, map_radius, learning_rates, batch_size), up to the
\* first batch.  The batch sizes explored divide the number of sequences.
\* `before` and `delta` keep the weights and the mean spatial update of the
\* last column processed; the code does not keep them.
THEpochStepCall(batch_size) ==
    /\ pc = "th_idle"
    /\ ncalls < MaxCalls
    /\ ALen(data) % batch_size = 0
    /\ ncalls' = ncalls + 1
    /\ estep' = [ X |-> data,
                  influences |-> Influences(distance_grid, sigma,
                                            << learning_rates[1] >>, data_dim),
                  zeta |-> learning_rates[2],
                  batch_size |-> batch_size,
                  num_batches |-> CeilDiv(ALen(data), batch_size),
                  index |-> 0,
                  idx |-> 0,
                  prev_activations |-> ZeroMatrix(batch_size, MapDim(width, height)),
                  prev_bmu |-> [ z \in Range0(batch_size) |-> 0 ],
                  columns |-> 0,
                  before |-> weights,
                  delta |-> weights ]
    /\ pc' = "th_loop"
    /\ result' = NoResult
    /\ UNCHANGED << somFields, gi, train, data, seqVars >>

\* epoch_step, one turn of `for idx in range(current.shape[1])`; after the
\* last column of a batch the next batch starts from cleared activations.
THColumn ==
    /\ pc = "th_loop"
    /\ estep.index < estep.num_batches
    /\ LET current == Slice(estep.X, estep.index * estep.batch_size,
                            (estep.index + 1) * estep.batch_size)
           column == [ z \in DOMAIN current |-> current[z][estep.idx] ]
           got == THGetBmus(column, estep.prev_activations, weights,
                            model.temporal_weights, model.const_dim)
           spatial_mean == SpatialUpdateMean(got.spatial, estep.influences, got.bmu)
           temporal_update == TemporalUpdate(estep.batch_size, model.beta,
                                             estep.prev_bmu, got.bmu, estep.zeta,
                                             model.temporal_weights)
           last == estep.idx + 1 = ALen(current[0])
       IN  /\ weights' = Clip01(spatial_mean)
           /\ model' = [ model EXCEPT !.temporal_weights =
                           Clip01(MatAdd(@, TemporalUpdateSum(temporal_update))) ]
           /\ estep' = [ estep EXCEPT
                           !.index = IF last THEN @ + 1 ELSE @,
                           !.idx = IF last THEN 0 ELSE @ + 1,
                           !.prev_activations =
                               IF last
                               THEN ZeroMatrix(estep.batch_size, MapDim(width, height))
                               ELSE got.differences,
                           !.prev_bmu = IF last
                                        THEN [ z \in Range0(estep.batch_size) |-> 0 ]
                                        ELSE got.bmu,
                           !.columns = @ + 1,
                           !.before = weights,
                           !.delta = spatial_mean ]
    /\ UNCHANGED << width, height, data_dim, sigma, lam, learning_rates, lrfunc,
                    nbfunc, distance_grid, trained, pc, gi, train, result, ncalls,
                    data, file, base_order >>

\* epoch_step after the last batch: nothing is returned.
THEpochReturn ==
    /\ pc = "th_loop"
    /\ estep.index = estep.num_batches
    /\ pc' = "th_idle"
    /\ result' = [ op |-> "epoch_step", raised |-> "none", ndim |-> 3,
                   num_epochs |-> 1, batch_size |-> estep.batch_size,
                   value |-> << >> ]
    /\ estep' = NoCall
    /\ UNCHANGED << somFields, gi, train, ncalls, data, seqVars >>

\* THSom.predict(X): the first turn of the loop unpacks the three values that
\* _get_bmus returns into four names, which raises ValueError.
THPredict ==
    /\ pc = "th_idle"
    /\ LET prev_activations == ZeroMatrix(ALen(data), MapDim(width, height))
           column == [ z \in DOMAIN data |-> data[z][0] ]
           got == THGetBmus(column, prev_activations, weights,
                            model.temporal_weights, model.const_dim)
       IN  result' = IF Cardinality(DOMAIN got) = 4
                     THEN [ op |-> "predict", raised |-> "none", ndim |-> 3,
                            num_epochs |-> 0, batch_size |-> 0,
                            value |-> got.bmu ]
                     ELSE [ op |-> "predict", raised |-> "ValueError", ndim |-> 3,
                            num_epochs |-> 0, batch_size |-> 0, value |-> << >> ]
    /\ UNCHANGED << somFields, pc, gi, train, estep, ncalls, data, seqVars >>

\* THSom.train(X, num_epochs, batch_size), the train of Som: lam is set, and
\* the sequences of THSom are 3-D data, whose resize reads `num_batches`, a
\* name train never binds: NameError before the first epoch.
THTrain(num_epochs, batch_size) ==
    /\ pc = "th_idle"
    /\ ncalls < MaxCalls
    /\ ncalls' = ncalls + 1
    /\ lam' = LamOf(num_epochs, sigma)
    /\ result' = [ op |-> "train", raised |-> "NameError", ndim |-> 3,
                   num_epochs |-> num_epochs, batch_size |-> batch_size,
                   value |-> << >> ]
    /\ UNCHANGED << width, height, data_dim, sigma, learning_rates, lrfunc, nbfunc,
                    weights, distance_grid, trained, pc, gi, train, estep, data,
                    seqVars >>

NextTH ==
    \/ \E n \in 0 .. MaxEpochs, b \in BatchSizes : THTrain(n, b)
    \/ \E b \in BatchSizes : THEpochStepCall(b)
    \/ THColumn
    \/ THEpochReturn
    \/ THPredict

SpecTH == InitTH /\ [][NextTH]_vars

-----------------------------------------------------------------------------
(* Claims about THSom *)

\* C13 (as claimed), for THSom.epoch_step: after a column has been processed
\* the weight matrix is the matrix before it plus the batch-averaged spatial
\* update (kept within [0, 1]); the previous weights are not replaced by the
\* update alone.
C13_UpdateAddsToWeights ==
    (pc = "th_loop" /\ estep.columns > 0) =>
        weights = Clip01(MatAdd(estep.before, estep.delta))

\* C17 (as claimed): THSom.predict on N sequences of T steps returns
\* normally, with one unit index per sequence element.
C17_PredictReturnsIndices ==
    (result.op = "predict" /\ result.ndim = 3) =>
        /\ result.raised = "none"
        /\ DOMAIN result.value = DOMAIN data
        /\ \A z \in DOMAIN data :
              /\ DOMAIN result.value[z] = DOMAIN data[z]
              /\ \A t \in DOMAIN data[z] : result.value[z][t] \in Units

-----------------------------------------------------------------------------
(* Recursive and Merging (sequential.py): _get_bmus and _example *)

\* euclidean(x, weights) of somber/batch/som.py, which is not among the
\* sources: the distance sqrt(sum(diff^2)) of every row of x to every row of
\* the weights.
Euclidean(x, W) ==
    [ b \in DOMAIN x |->
        [ m \in DOMAIN W |->
            ISqrt(SumTo([ d \in DOMAIN W[m] |->
                            (x[b][d] - W[m][d]) * (x[b][d] - W[m][d]) ],
                        ALen(W[m]))) ] ]

\* np_min(array, 1) of somber/utils.py, which is not among the sources: the
\* minimum of every row and its index.
NpMin(a) ==
    << [ b \in DOMAIN a |-> a[b][Argmin(a[b])] ],
       [ b \in DOMAIN a |-> Argmin(a[b]) ] >>

\* np_max(array, 1): the maximum of every row and its index.
NpMax(a) ==
    << [ b \in DOMAIN a |-> a[b][Argmax(a[b])] ],
       [ b \in DOMAIN a |-> Argmax(a[b]) ] >>

\* self.min_max(array, 1) for the function the model was constructed with.
MinMax(f, a) == IF f = "np_max" THEN NpMax(a) ELSE NpMin(a)

\* Som._calculate_influence(sigma) of the base class: the kernel
\* exp(-distance_grid / (2 * sigma^2)) between the units of the map; its last
\* axis repeats one number, which is kept once.  A radius too small for its
\* square to be told from 0 leaves the kernel of a unit with itself only.
CalculateInfluence(map_dim, radius) ==
    LET grid == CalculateDistanceGrid(map_dim[2], map_dim[1])
    IN  IF Mul(radius, radius) = 0
        THEN [ i \in DOMAIN grid |->
                 [ j \in DOMAIN grid[i] |-> IF grid[i][j] = 0 THEN SCALE ELSE 0 ] ]
        ELSE DistanceGridKernel(grid, radius)

\* Som._apply_influences(activation, influences) of the base class: the
\* winner of every row by min_max and the winner's row of the influences.
ApplyInfluences(f, activation, influences) ==
    LET bmu == MinMax(f, activation)[2]
    IN  [ influence |-> [ b \in DOMAIN activation |-> influences[bmu[b]] ],
          bmu |-> bmu ]

\* Som._calculate_update(x, weights, influence) of the base class: the
\* difference of the input to every weight, times the influence.
CalculateUpdate(x, W, influence) ==
    [ b \in DOMAIN x |->
        [ m \in DOMAIN W |->
            [ d \in DOMAIN W[m] |-> Mul(x[b][d] - W[m][d], influence[b][m]) ] ] ]

\* np.mean(update, 0)
MeanAxis0(u) ==
    LET n == ALen(u)
    IN  [ m \in DOMAIN u[0] |->
            [ d \in DOMAIN u[0][m] |->
                SumTo([ b \in Range0(n) |-> u[b][m][d] ], n) \div n ] ]

\* An array of unit indices where the base class expects rows of numbers:
\* every index is subtracted from all entries of a weight row.
IndexRows(idx, W) ==
    [ b \in DOMAIN idx |-> [ d \in DOMAIN W[0] |-> idx[b] * SCALE ] ]

\* Recursive._get_bmus(x, prev_activation=prev)
RecursiveGetBmus(m, x, prev) ==
    LET distance_x == Euclidean(x, m.weights)
        distance_y == Euclidean(prev, m.context_weights)
    IN  [ b \in DOMAIN x |->
            [ u \in DOMAIN m.weights |->
                Exp(-(Mul(distance_x[b][u], m.alpha)
                      + Mul(distance_y[b][u], m.beta))) ] ]

\* A plausible slip: alpha and 1 - alpha exchanged.
MergingGetBmusSwapped(m, x, context) ==
    LET distances_x == Euclidean(x, m.weights)
        distances_y == Euclidean(context, m.context_weights)
    IN  [ b \in DOMAIN x |->
            [ u \in DOMAIN m.weights |->
                Mul(distances_x[b][u], m.alpha)
                + Mul(distances_y[b][u], SCALE - m.alpha) ] ]

\* Merging._get_bmus(x, prev_activation=context)
MergingGetBmus(m, x, context) ==
    LET distances_x == Euclidean(x, m.weights)
        distances_y == Euclidean(context, m.context_weights)
    IN  [ b \in DOMAIN x |->
            [ u \in DOMAIN m.weights |->
                Mul(distances_x[b][u], SCALE - m.alpha)
                + Mul(distances_y[b][u], m.alpha) ] ]

\* Recursive._example(x, influences, prev_activation=prev): the model after
\* the call and what the call computed.
RecursiveExample(m, x, influences, prev) ==
    LET activation == RecursiveGetBmus(m, x, prev)
        ai == ApplyInfluences(m.min_max, activation, influences)
        delta == MeanAxis0(CalculateUpdate(x, m.weights, ai.influence))
        res == MeanAxis0(CalculateUpdate(prev, m.context_weights, ai.influence))
    IN  [ model |-> [ m EXCEPT !.weights = MatAdd(m.weights, delta),
                               !.context_weights = MatAdd(m.context_weights, res) ],
          activation |-> activation,
          bmu |-> ai.bmu,
          influence |-> ai.influence,
          prev_bmu |-> << >>,
          context |-> prev,
          delta |-> delta,
          context_delta |-> res ]

\* Merging._example: prev_bmu = self.min_max(prev_activation, 1)[1]
MergingPrevBmu(m, prev) == MinMax(m.min_max, prev)[2]

\* A plausible slip: the weights alone as the context.
MergingContextUnblended(m, prev_bmu) ==
    [ b \in DOMAIN prev_bmu |-> m.weights[prev_bmu[b]] ]

\* Merging._example: context = (1 - beta) * weights[prev_bmu]
\*                             + beta * context_weights[prev_bmu]
MergingContext(m, prev_bmu) ==
    [ b \in DOMAIN prev_bmu |->
        [ d \in DOMAIN m.weights[0] |->
            Mul(SCALE - m.beta, m.weights[prev_bmu[b]][d])
            + Mul(m.beta, m.context_weights[prev_bmu[b]][d]) ] ]

\* Merging._example(x, influences, prev_activation=prev): the context update is
\* computed from prev_bmu, the array of indices.
MergingExample(m, x, influences, prev) ==
    LET prev_bmu == MergingPrevBmu(m, prev)
        context == MergingContext(m, prev_bmu)
        activation == MergingGetBmus(m, x, context)
        ai == ApplyInfluences(m.min_max, activation, influences)
        delta == MeanAxis0(CalculateUpdate(x, m.weights, ai.influence))
        res == MeanAxis0(CalculateUpdate(IndexRows(prev_bmu, m.context_weights),
                                         m.context_weights, ai.influence))
    IN  [ model |-> [ m EXCEPT !.weights = MatAdd(m.weights, delta),
                               !.context_weights = MatAdd(m.context_weights, res) ],
          activation |-> activation,
          bmu |-> ai.bmu,
          influence |-> ai.influence,
          prev_bmu |-> prev_bmu,
          context |-> context,
          delta |-> delta,
          context_delta |-> res ]

\* self._example(...) of the model's class
Example(m, x, influences, prev) ==
    IF m.cls = "Recursive"
    THEN RecursiveExample(m, x, influences, prev)
    ELSE MergingExample(m, x, influences, prev)

\* Sequential._init_prev(X) = np.zeros((X.shape[1], self.weight_dim))
InitPrev(m, X) == ZeroMatrix(ALen(X[0]), m.weight_dim)

-----------------------------------------------------------------------------
(* Merging._entropy *)

\* np.nan_to_num(np.log2(p)): log2(0) = -inf becomes the most negative
\* finite number, which the factor p = 0 then turns into 0.
Log2Finite(p) ==
    IF p = 0 THEN -(2^29) ELSE (Ln(p) * SCALE) \div Ln(2 * SCALE)

\* new_entropy of _entropy for the counts `counts` (the values of prev_bmus):
\* prev_bmus / np.sum(prev_bmus), then -sum(p * nan_to_num(log2(p))).
NewEntropy(counts) ==
    LET n == ALen(counts)
        total == SumTo(counts, n)
        p == [ i \in Range0(n) |-> (counts[i] * SCALE) \div total ]
    IN  - SumTo([ i \in Range0(n) |-> Mul(p[i], Log2Finite(p[i])) ], n)

\* A plausible slip: the momentum and the step exchanged.
EntropyUpdateSwapped(entropy_diff, prev_update) ==
    (entropy_diff * 9) \div 10 + prev_update \div 10

\* update = (entropy_diff * 0.1) + (prev_update * 0.9)
EntropyUpdate(entropy_diff, prev_update) ==
    entropy_diff \div 10 + (prev_update * 9) \div 10

\* Merging._entropy(prev_bmus, prev_update): the model after the call and the
\* value returned.
Entropy(m, counts, prev_update) ==
    LET new_entropy == NewEntropy(counts)
        entropy_diff == new_entropy - m.entropy.n
    IN  [ model |-> [ m EXCEPT !.entropy = Num(new_entropy) ],
          update |-> EntropyUpdate(entropy_diff, prev_update) ]

-----------------------------------------------------------------------------
(* Sequential._epoch and Merging._epoch *)

\* The influences of _epoch are the kernel of a radius, multiplied and divided
\* by learning rates in place.  They are kept as the radius and the rates
\* multiplied in and divided out, a rate divided out cancelling the same rate
\* multiplied in, which is exact arithmetic; the rounding of the floating
\* point product and quotient is left out.
Kernel(radius) == [ radius |-> radius, times |-> EmptyBag, over |-> EmptyBag ]

\* influences *= rate
Times(infl, rate) ==
    IF BagIn(rate, infl.over)
    THEN [ infl EXCEPT !.over = @ (-) SetToBag({ rate }) ]
    ELSE [ infl EXCEPT !.times = @ (+) SetToBag({ rate }) ]

\* influences /= rate
Over(infl, rate) ==
    IF BagIn(rate, infl.times)
    THEN [ infl EXCEPT !.times = @ (-) SetToBag({ rate }) ]
    ELSE [ infl EXCEPT !.over = @ (+) SetToBag({ rate }) ]

RECURSIVE BagProduct(_)
\* The product of the numbers of a bag
BagProduct(B) ==
    IF B = EmptyBag THEN SCALE
    ELSE LET v == CHOOSE v \in BagToSet(B) : TRUE
         IN  Mul(v, BagProduct(B (-) SetToBag({ v })))

\* The array that the influences stand for
InfluenceArray(map_dim, infl) ==
    LET k == CalculateInfluence(map_dim, infl.radius)
    IN  [ i \in DOMAIN k |->
            [ j \in DOMAIN k[i] |->
                Div(Mul(k[i][j], BagProduct(infl.times)), BagProduct(infl.over)) ] ]

\* _epoch, if idx in nb_update_counter: the influences are calculated anew
\* for the new radius and multiplied by the learning rate.
NbUpdate(map_radius, learning_rate) == Times(Kernel(map_radius), learning_rate)

\* A plausible slip: the new learning rate multiplied in without the old one
\* divided out.
LrUpdateNoReset(infl, old_rate, new_rate) == Times(infl, new_rate)

\* _epoch, if idx in lr_update_counter: influences /= learning_rate, then the
\* new learning rate, then influences *= learning_rate.
LrUpdate(infl, old_rate, new_rate) == Times(Over(infl, old_rate), new_rate)

\* A plausible slip: the step counted on every index.
NextStepAlways(step, idx, update_counter) == step + 1

\* _epoch: if idx in nb_update_counter: nb_step += 1, and the same for lr_step
\* and lr_update_counter.
NextStep(step, idx, update_counter) ==
    IF idx \in update_counter THEN step + 1 ELSE step

\* self.nbfunc(self.sigma, nb_step, len(nb_update_counter))
EpochRadius(m, nb_step, nb_update_counter) ==
    Schedule(m.nbfunc.f, m.sigma.n, nb_step, Cardinality(nb_update_counter) * SCALE)

\* self.lrfunc(self.learning_rate, lr_step, len(lr_update_counter))
EpochRate(m, lr_step, lr_update_counter) ==
    Schedule(m.lrfunc.f, m.learning_rate, lr_step,
             Cardinality(lr_update_counter) * SCALE)

-----------------------------------------------------------------------------
(* The sequential models as a state machine: _example, _entropy, _epoch *)

\* Most rows of the data that the examples and epochs are run on.
MaxRunRows == 2

\* The data X of _epoch, as _create_batches returns it: 1..MaxRunRows rows of
\* one entry, in batches of one row or of all rows.
RunData ==
    UNION { { CreateBatches([ i \in Range0(n) |->
                                [ d \in Range0(1) |-> (2 * i - 1) * (SCALE \div 2) ] ],
                            b) : b \in { 1, n } } :
            n \in 1 .. MaxRunRows }

\* The weights the models start with: two units of one entry.
RunWeights ==
    { [ m \in Range0(2) |-> [ d \in Range0(1) |-> (3 * m - 1) * (SCALE \div 4) ] ],
      [ m \in Range0(2) |-> [ d \in Range0(1) |-> (1 - m) * SCALE ] ] }

\* The learning rates of the influences given to _example directly.
RunRates == { SCALE \div 4, SCALE }

\* The update counters given to _epoch: sets of indices.
RunCounters == SUBSET Range0(MaxRunRows)

\* The values of the dictionaries prev_bmus given to _entropy.
EntropyCounts ==
    { Arr(<< >>), Arr(<< 2 >>), Arr(<< 1, 1 >>), Arr(<< 2, 0 >>), Arr(<< 1, 2 >>) }

\* cls((1, 2), 1, 0.3, alpha=0.25, beta=0.75, sigma, lrfunc) for both classes,
\* after the _create_batches call that made the data and set the two
\* attributes that the progress bar of _epoch reads.
InitRun ==
    /\ width = 1
    /\ height = 2
    /\ data_dim = 1
    /\ sigma = DefaultSigma(1, 2)
    /\ lam = 0
    /\ learning_rates = << SCALE >>
    /\ lrfunc = "expo"
    /\ nbfunc = "expo"
    /\ weights = ZeroMatrix(2, 1)
    /\ distance_grid = ZeroMatrix(2, 2)
    /\ trained = FALSE
    /\ pc = "run"
    /\ gi = 0
    /\ train = NoCall
    /\ estep = NoCall
    /\ result = NoResult
    /\ ncalls = 0
    /\ data \in RunData
    /\ base_order \in BaseOrders
    /\ \E cls \in { "Recursive", "Merging" }, a \in SeqArgs, w0 \in RunWeights :
          model = [ Construct(cls, base_order, << 1, 2 >>, 1, (3 * SCALE) \div 10,
                              SCALE \div 4, (3 * SCALE) \div 4,
                              a.sigma, a.lrfunc, Fn("expo"), w0)
                    EXCEPT !.progressbar_interval = Num(1),
                           !.progressbar_mult = Num(ALen(data[0])) ]
    /\ file = NoFile

\* model._example(X[t], influences, prev_activation=prev), called on its own:
\* prev is what the example before returned, or _init_prev(X).
ExampleCall(t, rate) ==
    /\ pc = "run"
    /\ ncalls < MaxCalls
    /\ ncalls' = ncalls + 1
    /\ \E prev \in { IF result.op = "_example"
                      THEN result.value.activation
                      ELSE InitPrev(model, data) },
          influences \in { InfluenceArray(model.map_dimensions,
                                          Times(Kernel(DefaultSigma(1, 2)), rate)) } :
          \E ex \in { Example(model, data[t], influences, prev) } :
             /\ model' = ex.model
             /\ result' = SeqResult("_example", "none", ALen(data[t]),
                                    [ before |-> model,
                                      after |-> ex.model,
                                      x |-> data[t],
                                      prev |-> prev,
                                      influences |-> influences,
                                      activation |-> ex.activation,
                                      bmu |-> ex.bmu,
                                      influence |-> ex.influence,
                                      prev_bmu |-> ex.prev_bmu,
                                      context |-> ex.context ])
    /\ UNCHANGED << somFields, pc, gi, train, estep, data, file, base_order >>

\* model._entropy(prev_bmus, prev_update) on a Merging model: prev_update is
\* 0 or what the call before returned.
EntropyCall(counts, chained) ==
    /\ pc = "run"
    /\ ncalls < MaxCalls
    /\ model.cls = "Merging"
    /\ ncalls' = ncalls + 1
    /\ LET prev_update == IF chained /\ result.op = "_entropy"
                          THEN result.value.update
                          ELSE SCALE \div 2
           e == Entropy(model, counts, prev_update)
       IN  /\ model' = e.model
           /\ result' = SeqResult("_entropy", "none", 0,
                                  [ before |-> model,
                                    after |-> e.model,
                                    prev_bmus |-> counts,
                                    prev_update |-> prev_update,
                                    update |-> e.update ])
    /\ UNCHANGED << somFields, pc, gi, train, estep, data, file, base_order >>

\* model._epoch(X, nb_update_counter, lr_update_counter, idx, nb_step, lr_step,
\* show_progressbar) up to the loop: idx, nb_step and lr_step are what the
\* epoch before returned, and 0 when there was none.  Calling self.nbfunc
\* raises when it is not a function, and the schedules divide by the length of
\* their counter.  `same` is not a variable of the code: it tells that every
\* epoch since idx = 0 was given these two counters.
SeqEpochCall(nb_update_counter, lr_update_counter) ==
    /\ pc = "run"
    /\ ncalls < MaxCalls
    /\ ncalls' = ncalls + 1
    /\ LET chained == result.op = "_epoch" /\ result.raised = "none"
           start == IF chained
                    THEN [ idx |-> result.value.idx,
                           nb_step |-> result.value.nb_step,
                           lr_step |-> result.value.lr_step ]
                    ELSE [ idx |-> 0, nb_step |-> 0, lr_step |-> 0 ]
           same == IF chained
                   THEN /\ result.value.call.same
                        /\ result.value.call.nb_update_counter = nb_update_counter
                        /\ result.value.call.lr_update_counter = lr_update_counter
                   ELSE TRUE
       IN  IF model.nbfunc.t # "fn"
           THEN /\ result' = SeqResult("_epoch", "TypeError", ALen(data[0]), start)
                /\ UNCHANGED << pc, estep >>
           ELSE IF nb_update_counter = { } \/ lr_update_counter = { }
           THEN /\ result' = SeqResult("_epoch", "ZeroDivisionError",
                                       ALen(data[0]), start)
                /\ UNCHANGED << pc, estep >>
           ELSE LET map_radius == EpochRadius(model, start.nb_step, nb_update_counter)
                    learning_rate == EpochRate(model, start.lr_step, lr_update_counter)
                IN  /\ estep' = [ active |-> TRUE,
                                  nb_update_counter |-> nb_update_counter,
                                  lr_update_counter |-> lr_update_counter,
                                  start |-> start,
                                  same |-> same,
                                  t |-> 0,
                                  idx |-> start.idx,
                                  nb_step |-> start.nb_step,
                                  lr_step |-> start.lr_step,
                                  map_radius |-> map_radius,
                                  learning_rate |-> learning_rate,
                                  influences |-> Times(Kernel(map_radius), learning_rate),
                                  prev |-> InitPrev(model, data),
                                  last |-> "none" ]
                    /\ pc' = "epoch"
                    /\ UNCHANGED result
    /\ UNCHANGED << somFields, gi, train, data, model, file, base_order >>

\* One turn of the loop of _epoch: the example, the update of the radius when
\* idx is in nb_update_counter, the update of the learning rate when idx is in
\* lr_update_counter, idx += 1.
SeqEpochExample ==
    /\ pc = "epoch"
    /\ estep.t < ALen(data)
    /\ \E influences \in { InfluenceArray(model.map_dimensions, estep.influences) } :
       \E ex \in { Example(model, data[estep.t], influences, estep.prev) } :
       LET e == estep
           nb == e.idx \in e.nb_update_counter
           lr == e.idx \in e.lr_update_counter
           nb_step == NextStep(e.nb_step, e.idx, e.nb_update_counter)
           map_radius == IF nb
                         THEN EpochRadius(model, nb_step, e.nb_update_counter)
                         ELSE e.map_radius
           influences1 == IF nb
                          THEN NbUpdate(map_radius, e.learning_rate)
                          ELSE e.influences
           lr_step == NextStep(e.lr_step, e.idx, e.lr_update_counter)
           learning_rate == IF lr
                            THEN EpochRate(model, lr_step, e.lr_update_counter)
                            ELSE e.learning_rate
           influences2 == IF lr
                          THEN LrUpdate(influences1, e.learning_rate, learning_rate)
                          ELSE influences1
       IN  /\ model' = ex.model
           /\ estep' = [ e EXCEPT !.t = @ + 1,
                                  !.idx = @ + 1,
                                  !.nb_step = nb_step,
                                  !.lr_step = lr_step,
                                  !.map_radius = map_radius,
                                  !.learning_rate = learning_rate,
                                  !.influences = influences2,
                                  !.prev = ex.activation,
                                  !.last = IF nb /\ lr THEN "both"
                                           ELSE IF nb THEN "nb"
                                           ELSE IF lr THEN "lr"
                                           ELSE "neither" ]
    /\ UNCHANGED << somFields, pc, gi, train, result, ncalls, data, file,
                    base_order >>

\* return idx, nb_step, lr_step; `call` is not part of the value returned: it
\* keeps the arguments of the call.
SeqEpochReturn ==
    /\ pc = "epoch"
    /\ estep.t = ALen(data)
    /\ result' = SeqResult("_epoch", "none", ALen(data[0]),
                           [ idx |-> estep.idx,
                             nb_step |-> estep.nb_step,
                             lr_step |-> estep.lr_step,
                             call |-> [ start |-> estep.start,
                                        same |-> estep.same,
                                        nb_update_counter |-> estep.nb_update_counter,
                                        lr_update_counter |-> estep.lr_update_counter ] ])
    /\ estep' = NoCall
    /\ pc' = "run"
    /\ UNCHANGED << somFields, gi, train, ncalls, data, model, file, base_order >>

NextRun ==
    \/ \E t \in DOMAIN data, rate \in RunRates : ExampleCall(t, rate)
    \/ \E counts \in EntropyCounts, chained \in BOOLEAN : EntropyCall(counts, chained)
    \/ \E nbc \in RunCounters, lrc \in RunCounters : SeqEpochCall(nbc, lrc)
    \/ SeqEpochExample
    \/ SeqEpochReturn

SpecRun == InitRun /\ [][NextRun]_vars

-----------------------------------------------------------------------------
(* Claims about _get_bmus and _example of the sequential models *)

\* C14: a Recursive model scores every unit by
\* exp(-(alpha * spatial distance + beta * context distance)) and its winner
\* is a unit of maximum score; a Merging model scores every unit by
\* (1 - alpha) * spatial distance + alpha * context distance and its winner is
\* a unit of minimum score.
C14_WinnerCriterion ==
    result.op = "_example" =>
        LET v == result.value
            m == v.before
            spatial == Euclidean(v.x, m.weights)
            ctx == Euclidean(v.context, m.context_weights)
        IN  \A b \in DOMAIN v.x :
               /\ v.bmu[b] \in DOMAIN m.weights
               /\ \A u \in DOMAIN m.weights :
                     IF m.cls = "Recursive"
                     THEN /\ v.activation[b][u] =
                                Exp(-((m.alpha * spatial[b][u]) \div SCALE
                                      + (m.beta * ctx[b][u]) \div SCALE))
                          /\ v.activation[b][v.bmu[b]] >= v.activation[b][u]
                     ELSE /\ v.activation[b][u] =
                                ((SCALE - m.alpha) * spatial[b][u]) \div SCALE
                                + (m.alpha * ctx[b][u]) \div SCALE
                          /\ v.activation[b][v.bmu[b]] <= v.activation[b][u]

\* C14 witness: an example of a Recursive model whose winner is the second
\* unit, of greater score than the first, which a minimum would have picked.
C14_Witness ==
    /\ result.op = "_example"
    /\ result.value.before.cls = "Recursive"
    /\ result.value.bmu[0] = 1
    /\ result.value.activation[0][1] > result.value.activation[0][0]

\* C15 (as claimed): in Merging._example the previous BMU is the index of the
\* maximum entry of the previous activation row, and the context given to the
\* BMU search is (1 - beta) * weights[prevBMU] + beta * context_weights[prevBMU].
C15_PrevBmuIsArgmax ==
    ( result.op = "_example" /\ result.value.before.cls = "Merging" ) =>
        LET v == result.value
            m == v.before
        IN  \A b \in DOMAIN v.x :
               /\ v.prev_bmu[b] = Argmax(v.prev[b])
               /\ \A d \in DOMAIN m.weights[0] :
                     v.context[b][d] =
                         ((SCALE - m.beta) * m.weights[v.prev_bmu[b]][d]) \div SCALE
                         + (m.beta * m.context_weights[v.prev_bmu[b]][d]) \div SCALE

\* C15 (amended): in Merging._example the previous BMU is the index that the
\* model's min_max picks in the previous activation row, for the np_min of a
\* Merging model the first index of its minimum entry, and the context given
\* to the BMU search is
\* (1 - beta) * weights[prevBMU] + beta * context_weights[prevBMU].
C15_PrevBmuIsArgmin ==
    ( result.op = "_example" /\ result.value.before.cls = "Merging" ) =>
        LET v == result.value
            m == v.before
        IN  \A b \in DOMAIN v.x :
               /\ \A u \in DOMAIN v.prev[b] :
                     /\ v.prev[b][v.prev_bmu[b]] <= v.prev[b][u]
                     /\ u < v.prev_bmu[b] => v.prev[b][u] > v.prev[b][v.prev_bmu[b]]
               /\ \A d \in DOMAIN m.weights[0] :
                     v.context[b][d] =
                         ((SCALE - m.beta) * m.weights[v.prev_bmu[b]][d]) \div SCALE
                         + (m.beta * m.context_weights[v.prev_bmu[b]][d]) \div SCALE

\* C15 witness: a Merging example whose previous activation row has its
\* minimum at the second unit and its maximum at the first.
C15_Witness ==
    /\ result.op = "_example"
    /\ result.value.before.cls = "Merging"
    /\ result.value.prev[0][1] < result.value.prev[0][0]
    /\ result.value.prev_bmu[0] = 1
    /\ result.value.context[0] # result.value.before.weights[1]

\* C18: in Merging._example the context weights after the example are the
\* context weights before it plus the batch mean of
\* (context - context weights) * influence at the BMU, for the blended context
\* that the BMU search of the example used.
C18_ContextDeltaFromContext ==
    ( result.op = "_example" /\ result.value.before.cls = "Merging" ) =>
        LET v == result.value
            m == v.before
            n == ALen(v.x)
        IN  \A u \in DOMAIN m.context_weights :
               \A d \in DOMAIN m.context_weights[u] :
                  v.after.context_weights[u][d] =
                      m.context_weights[u][d]
                      + SumTo([ b \in Range0(n) |->
                                  ((v.context[b][d] - m.context_weights[u][d])
                                   * v.influence[b][u]) \div SCALE ], n) \div n

\* C19, after a call of _entropy: the stored entropy is the entropy of the
\* distribution of the counts (0 when one unit has all of them, 1 = log2(2)
\* when two units share them evenly), the value returned is
\* 0.1 * (new entropy - entropy stored before) + 0.9 * prev_update, and alpha,
\* beta, weights and context_weights are as before.
C19_State ==
    result.op = "_entropy" =>
        LET v == result.value
            n == ALen(v.prev_bmus)
            all == SumTo(v.prev_bmus, n)
            new == v.after.entropy.n
        IN  /\ v.after.entropy.t = "num"
            /\ new = - SumTo([ i \in Range0(n) |->
                                 IF v.prev_bmus[i] = 0 THEN 0
                                 ELSE Mul((v.prev_bmus[i] * SCALE) \div all,
                                          (Ln((v.prev_bmus[i] * SCALE) \div all) * SCALE)
                                              \div Ln(2 * SCALE)) ], n)
            /\ (\E i \in Range0(n) : v.prev_bmus[i] = all) => new = 0
            /\ (n = 2 /\ v.prev_bmus[0] = v.prev_bmus[1]) => new = SCALE
            /\ v.update = (new - v.before.entropy.n) \div 10 + (v.prev_update * 9) \div 10
            /\ v.after.alpha = v.before.alpha
            /\ v.after.beta = v.before.beta
            /\ v.after.weights = v.before.weights
            /\ v.after.context_weights = v.before.context_weights
            /\ v.after = [ v.before EXCEPT !.entropy = Num(new) ]

\* C19: _entropy stores the new entropy, returns the smoothed difference and
\* leaves alpha, beta, weights and context_weights alone (C19_State), and no
\* step of an example, an epoch or _entropy changes alpha.
C19_EntropyStoredAlphaKept ==
    [] C19_State /\ [][model'.alpha = model.alpha]_vars

\* C19 witness: _entropy has been called with two units sharing the counts
\* evenly on a model whose stored entropy was 0: the entropy stored is 1 and
\* the value returned differs from prev_update.
C19_Witness ==
    /\ result.op = "_entropy"
    /\ result.value.prev_bmus = Arr(<< 1, 1 >>)
    /\ result.value.before.entropy = Num(0)
    /\ model.entropy = Num(SCALE)
    /\ result.value.update # result.value.prev_update
    /\ result.value.update = SCALE \div 10 + (9 * (SCALE \div 2)) \div 10

\* C20: while _epoch runs, before every example (and after the last) the
\* influences are the kernel of the current map_radius times the current
\* learning_rate, once, where map_radius is
\* nbfunc(sigma, nb_step, len(nb_update_counter)) and learning_rate is
\* lrfunc(initial rate, lr_step, len(lr_update_counter)), whether the index
\* before updated the radius, the learning rate, both or neither.
C20_InfluencesFollowSchedules ==
    pc = "epoch" =>
        /\ estep.map_radius =
              Schedule(model.nbfunc.f, model.sigma.n, estep.nb_step,
                       Cardinality(estep.nb_update_counter) * SCALE)
        /\ estep.learning_rate =
              Schedule(model.lrfunc.f, model.learning_rate, estep.lr_step,
                       Cardinality(estep.lr_update_counter) * SCALE)
        /\ estep.influences.radius = estep.map_radius
        /\ estep.influences.times = SetToBag({ estep.learning_rate })
        /\ estep.influences.over = EmptyBag

\* C20 witness: an index has updated both the radius and the learning rate,
\* to values other than the ones before, and another example is to follow.
C20_Witness ==
    /\ pc = "epoch"
    /\ estep.last = "both"
    /\ estep.t < ALen(data)
    /\ estep.nb_step > estep.start.nb_step
    /\ estep.lr_step > estep.start.lr_step
    /\ estep.learning_rate # model.learning_rate

\* C22, on return: _epoch returns idx advanced by the number of examples of X,
\* nb_step advanced by the number of indices of nb_update_counter from the idx
\* given up to the idx returned, and lr_step likewise for lr_update_counter.
C22_Returned ==
    ( result.op = "_epoch" /\ result.raised = "none" ) =>
        LET v == result.value
            s == v.call.start
            seen(counter) == { i \in counter : s.idx <= i /\ i < s.idx + ALen(data) }
        IN  /\ v.idx = s.idx + ALen(data)
            /\ v.nb_step = s.nb_step + Cardinality(seen(v.call.nb_update_counter))
            /\ v.lr_step = s.lr_step + Cardinality(seen(v.call.lr_update_counter))
            /\ v.call.same =>
                  /\ v.nb_step <= Cardinality(v.call.nb_update_counter)
                  /\ v.lr_step <= Cardinality(v.call.lr_update_counter)

\* C22, in a chain of epochs from idx = 0 and steps 0 that are given the same
\* counters: every index of a counter below idx has raised the step once, so
\* nb_step <= len(nb_update_counter) and lr_step <= len(lr_update_counter).
C22_Chained ==
    ( pc = "epoch" /\ estep.same ) =>
        /\ estep.nb_step = Cardinality({ i \in estep.nb_update_counter : i < estep.idx })
        /\ estep.lr_step = Cardinality({ i \in estep.lr_update_counter : i < estep.idx })
        /\ estep.nb_step <= Cardinality(estep.nb_update_counter)
        /\ estep.lr_step <= Cardinality(estep.lr_update_counter)

\* C22: what _epoch returns (C22_Returned) and the bounds of the steps along a
\* chain of epochs (C22_Chained).
C22_StepsCountUpdateIndices == C22_Returned /\ C22_Chained

\* C22 witness: the second epoch of a chain has returned; it started at idx 1
\* with one radius update behind it, saw index 1 of both counters and returned
\* idx 2, nb_step 2 and lr_step 1.
C22_Witness ==
    /\ result.op = "_epoch"
    /\ result.raised = "none"
    /\ result.value.call.same
    /\ result.value.call.start = [ idx |-> 1, nb_step |-> 1, lr_step |-> 0 ]
    /\ result.value.call.nb_update_counter = { 0, 1 }
    /\ result.value.call.lr_update_counter = { 1 }
    /\ result.value.idx = 2
    /\ result.value.nb_step = 2
    /\ result.value.lr_step = 1

=============================================================================
